---- MODULE Spec2Model ----
(***************************************************************************)
(* Retrieval-augmented question answering service (hackrx).               *)
(*   src/main.py                       document_cache, process_query_rag  *)
(*   src/services/rag_service.py       RAGService (batch answers)         *)
(*   src/services/rag_vector_store.py  RAGVectorStore                     *)
(*   src/services/semantic_chunker.py  SemanticChunker                    *)
(* A reply of the generation backend is a sequence of one-character       *)
(* strings, a fixed message of the code a single token of such a sequence; *)
(* a document text is run-length encoded (see SemanticChunker below).      *)
(***************************************************************************)
EXTENDS Integers, Sequences, FiniteSets, TLC

VARIABLES
    \* ---- RAGService.generate_batch_answers ----
    bquestions,     \* the questions argument
    bpc,            \* position inside generate_batch_answers
    battempts,      \* invocations of the function body by the @retry wrapper
    bidx,           \* loop index i of _fallback_individual_processing (0-based)
    banswers,       \* the answers list being built / returned
    blog,           \* backend interactions and sleeps, in order
    bparsed,        \* what the scan of _parse_batch_response found (before line 229)
    bparseout,      \* the value _parse_batch_response returned (answers, line 178)
    \* ---- RAGVectorStore (the module-level singleton rag_vector_store) ----
    vstore,         \* its fields: is_initialized, chunks, embeddings, index
    rcall,          \* the last retrieve_relevant_chunks call: arguments and result
    scall,          \* the last store_document call: its outcome
    nstores,        \* store_document calls made so far
    \* ---- src/main.py: the endpoint and its module state ----
    now,            \* time.time(), in seconds
    document_cache, \* fingerprint -> cache entry
    req,            \* the in-flight process_query_rag coroutines
    running,        \* the coroutine holding the event loop (0: none)
    nrequests,      \* requests accepted so far
    \* ---- SemanticChunker.chunk_document ----
    ctext,          \* the text argument
    ctype,          \* the document_type argument
    cchunks,        \* the returned list of chunks
    cpc,            \* "call" before the call, "done" after it
    coverlap,       \* the overlap the chunker was constructed with
    craised,        \* did the call end in an exception?
    \* ---- src/main.py: phase 2 of one request, question by question ----
    ph,             \* its locals: questions, all_contexts, final_context, answers
    \* ---- src/main.py: the security dependency of /hackrx/run ----
    auth            \* the last request it refused: credentials and HTTP status

batchVars == <<bquestions, bpc, battempts, bidx, banswers, blog, bparsed, bparseout>>

storeVars == <<vstore, rcall, scall, nstores>>

mainVars == <<now, document_cache, req, running, nrequests>>

chunkVars == <<ctext, ctype, cchunks, cpc, coverlap, craised>>

phaseVars == <<ph>>

authVars == <<auth>>

vars == <<bquestions, bpc, battempts, bidx, banswers, blog, bparsed, bparseout,
          vstore, rcall, scall, nstores, now, document_cache, req, running, nrequests,
          ctext, ctype, cchunks, cpc, coverlap, craised, ph, auth>>

(***************************************************************************)
(* Text helpers (Python str semantics on the modelled alphabet)            *)
(***************************************************************************)
IsWs(c) == c = " "

IsDigit(c) == c \in {"0", "1", "2", "3", "4", "5", "6", "7", "8", "9"}

RECURSIVE LStrip(_)
LStrip(s) == IF s = <<>> THEN s ELSE IF IsWs(Head(s)) THEN LStrip(Tail(s)) ELSE s

RECURSIVE RStrip(_)
RStrip(s) ==
    IF s = <<>> THEN s
    ELSE IF IsWs(s[Len(s)]) THEN RStrip(SubSeq(s, 1, Len(s) - 1)) ELSE s

\* str.strip()
Strip(s) == RStrip(LStrip(s))

RECURSIVE DigitPrefix(_)
\* length of the match of \d* at the start of s
DigitPrefix(s) ==
    IF s = <<>> THEN 0 ELSE IF IsDigit(Head(s)) THEN 1 + DigitPrefix(Tail(s)) ELSE 0

RECURSIVE RemoveChar(_, _)
\* s.replace(c, "") for a one-character c
RemoveChar(s, c) ==
    IF s = <<>> THEN s
    ELSE IF Head(s) = c THEN RemoveChar(Tail(s), c)
    ELSE <<Head(s)>> \o RemoveChar(Tail(s), c)

RECURSIVE RemovePair(_, _, _)
\* s.replace(c1 + c2, ""): non-overlapping occurrences, left to right
RemovePair(s, c1, c2) ==
    IF Len(s) < 2 THEN s
    ELSE IF s[1] = c1 /\ s[2] = c2 THEN RemovePair(SubSeq(s, 3, Len(s)), c1, c2)
    ELSE <<Head(s)>> \o RemovePair(Tail(s), c1, c2)

(***************************************************************************)
(* RAGService: answer synthesis (src/services/rag_service.py)              *)
(***************************************************************************)
\* the character U+2022 of the clean-up code
BULLET == "U+2022"

\* rag_service.py:231, the padding answer of _parse_batch_response
NOT_AVAILABLE == <<"This information is not available in the provided document.">>

\* rag_service.py:119 and :175
UNABLE == <<"Unable to generate answer for this question.">>

\* rag_service.py:134, f"Error generating answer: {str(e)}"
ErrorGenerating(e) == <<"Error generating answer: ", e>>

\* rag_service.py:253, f"Error processing question: {str(e)}"
ErrorProcessing(e) == <<"Error processing question: ", e>>

\* rag_service.py:124-126 / 183-185: the chain of str.replace calls
CleanAnswer(s) ==
    RemovePair(RemovePair(RemoveChar(RemoveChar(s, "*"), "#"), "-", " "), BULLET, " ")

\* mutant: group(0) in place of group(2), the marker stays in the answer
NumberMatchWhole(line) ==
    IF /\ DigitPrefix(line) >= 1 /\ Len(line) > DigitPrefix(line) + 1
       /\ line[DigitPrefix(line) + 1] = "."
    THEN line ELSE <<>>

\* re.match(r'^(\d+)\.\s*(.+)', line).group(2), or <<>> when there is no match
\* (group 2 is never empty when the pattern matches)
NumberMatch(line) ==
    LET d == DigitPrefix(line)
        rest == SubSeq(line, d + 2, Len(line))
    IN  IF d >= 1 /\ Len(line) >= d + 1 /\ line[d + 1] = "." /\ rest # <<>>
        THEN IF LStrip(rest) # <<>> THEN LStrip(rest) ELSE <<rest[Len(rest)]>>
        ELSE <<>>

RECURSIVE ScanLines(_, _, _)
\* the for loop of _parse_batch_response (lines 208-223) followed by
\* "add the last answer" (226-227)
ScanLines(lines, answers, current_answer) ==
    IF lines = <<>>
    THEN IF current_answer # <<>> THEN Append(answers, Strip(current_answer)) ELSE answers
    ELSE LET line == Strip(Head(lines))
             m == NumberMatch(line)
         IN  IF m # <<>>
             THEN ScanLines(Tail(lines),
                            IF current_answer # <<>>
                            THEN Append(answers, Strip(current_answer)) ELSE answers,
                            m)
             ELSE ScanLines(Tail(lines), answers,
                            IF current_answer # <<>> /\ line # <<>>
                            THEN current_answer \o <<" ">> \o line
                            ELSE current_answer)

\* mutant: the padding loop is missing
PadAnswersNone(answers, expected_count) == answers

\* the while loop of lines 230-231
RECURSIVE PadAnswers(_, _)
PadAnswers(answers, expected_count) ==
    IF Len(answers) < expected_count
    THEN PadAnswers(Append(answers, NOT_AVAILABLE), expected_count)
    ELSE answers

\* mutant: "return answers" without the slice
TruncateNone(answers, expected_count) == answers

\* answers[:expected_count]
Truncate(answers, expected_count) ==
    SubSeq(answers, 1, IF Len(answers) < expected_count THEN Len(answers) ELSE expected_count)

\* RAGService._parse_batch_response; lines is response_text.strip().split('\n')
ParseBatchResponse(lines, expected_count) ==
    Truncate(PadAnswers(ScanLines(lines, <<>>, <<>>), expected_count), expected_count)

\* lines 181-186: clean every answer
CleanAll(answers) == [i \in 1..Len(answers) |-> CleanAnswer(answers[i])]

RECURSIVE DropLeadingBlank(_)
DropLeadingBlank(lines) ==
    IF lines = <<>> THEN lines
    ELSE IF LStrip(Head(lines)) = <<>> THEN DropLeadingBlank(Tail(lines))
    ELSE <<LStrip(Head(lines))>> \o Tail(lines)

RECURSIVE DropTrailingBlank(_)
DropTrailingBlank(lines) ==
    IF lines = <<>> THEN lines
    ELSE IF RStrip(lines[Len(lines)]) = <<>>
         THEN DropTrailingBlank(SubSeq(lines, 1, Len(lines) - 1))
         ELSE SubSeq(lines, 1, Len(lines) - 1) \o <<RStrip(lines[Len(lines)])>>

\* response_text.strip().split('\n') on a text given by its lines
StripSplit(lines) ==
    LET t == DropTrailingBlank(DropLeadingBlank(lines))
    IN  IF t = <<>> THEN << <<>> >> ELSE t

\* placeholder outcome of a log entry that is no backend call
NoOutcome == [kind |-> "none", lines |-> <<>>, err |-> ""]

\* "not response or not response.text": no response object, or the text ""
ResponseFalsy(outcome) == outcome.kind = "none" \/ outcome.lines = << <<>> >>

\* @retry(stop=stop_after_attempt(3), ...) on generate_answer / generate_batch_answers
stop_after_attempt == 3

\* mutant: a call that returned is repeated once
RetryWrapperTwice(raised, attempt_number) ==
    IF attempt_number >= 2 THEN "returned" ELSE "entry"

\* tenacity's decision after one invocation of the wrapped function
RetryWrapper(raised, attempt_number) ==
    IF ~raised THEN "returned"
    ELSE IF attempt_number >= stop_after_attempt THEN "retry_error"
    ELSE "entry"

\* RAGService.generate_answer for one backend outcome: every exception of the
\* body is caught (line 132), so the function returns a string in every case
GenerateAnswer(outcome) ==
    IF outcome.kind = "raise" THEN ErrorGenerating(outcome.err)
    ELSE IF ResponseFalsy(outcome) THEN UNABLE
    ELSE CleanAnswer(Strip(outcome.lines[1]))

\* mutant: the delay is taken before every call, the first included
FallbackDelayAlways(i) == << [ev |-> "sleep", q |-> "", out |-> NoOutcome] >>

\* asyncio.sleep(3) precedes the call of iteration i (0-based) iff i > 0
FallbackDelay(i) == IF i > 0 THEN << [ev |-> "sleep", q |-> "", out |-> NoOutcome] >> ELSE <<>>

\* the question asked by iteration i (0-based) of the fallback loop
FallbackQuestion(questions, i) == questions[i + 1]

\* the try body of generate_batch_answers after the backend replied (174-189)
BatchAnswers(outcome, n) ==
    IF ResponseFalsy(outcome) THEN [i \in 1..n |-> UNABLE]
    ELSE CleanAll(ParseBatchResponse(StripSplit(outcome.lines), n))

(***************************************************************************)
(* Inputs of the answer-synthesis model                                    *)
(***************************************************************************)
MaxQuestions == 3
MaxLines == 3

QuestionIds == {"q1", "q2"}

SeqsUpTo(S, n) == UNION {[1..k -> S] : k \in 0..n}

\* "1. a", "2.b", "1.", "c", "", " ", " 7. *d"
LinePool ==
    { <<"1", ".", " ", "a">>, <<"2", ".", "b">>, <<"1", ".">>, <<"c">>, <<>>, <<" ">>,
      <<" ", "7", ".", " ", "*", "d">> }

\* replies of the backend to the batch prompt
BatchOutcomes ==
    {[kind |-> "raise", lines |-> <<>>, err |-> "quota"], NoOutcome}
    \cup {[kind |-> "text", lines |-> l, err |-> ""] : l \in SeqsUpTo(LinePool, MaxLines) \ {<<>>}}

\* replies of the backend to a single-question prompt: " a*b ", "- a", ""
SingleOutcomes ==
    {[kind |-> "raise", lines |-> <<>>, err |-> "quota"], NoOutcome}
    \cup {[kind |-> "text", lines |-> <<l>>, err |-> ""] :
            l \in { <<" ", "a", "*", "b", " ">>, <<"-", " ", "a">>, <<>> }}

(***************************************************************************)
(* generate_batch_answers as a state machine                               *)
(***************************************************************************)
\* one invocation of the function body by the retry wrapper, up to the return of
\* the try block or the entry into the except branch (lines 142-194)
InvokeBatch ==
    /\ bpc = "entry"
    /\ battempts' = battempts + 1
    /\ bidx' = 0
    /\ IF bquestions = <<>>
       THEN /\ banswers' = <<>>
            /\ bpc' = RetryWrapper(FALSE, battempts')
            /\ UNCHANGED <<blog, bparsed, bparseout>>
       ELSE \E outcome \in BatchOutcomes :
            /\ blog' = Append(blog, [ev |-> "batch", q |-> "", out |-> outcome])
            /\ IF outcome.kind = "raise"
               THEN /\ bpc' = "fallback"
                    /\ banswers' = <<>>
                    /\ UNCHANGED <<bparsed, bparseout>>
               ELSE /\ banswers' = BatchAnswers(outcome, Len(bquestions))
                    /\ bparsed' = IF ResponseFalsy(outcome) THEN <<>>
                                  ELSE ScanLines(StripSplit(outcome.lines), <<>>, <<>>)
                    /\ bparseout' = IF ResponseFalsy(outcome) THEN <<>>
                                    ELSE ParseBatchResponse(StripSplit(outcome.lines),
                                                            Len(bquestions))
                    /\ bpc' = RetryWrapper(FALSE, battempts')
    /\ UNCHANGED bquestions
    /\ UNCHANGED <<storeVars, mainVars, chunkVars, phaseVars, authVars>>

\* one iteration of the loop of _fallback_individual_processing (242-253)
FallbackStep ==
    /\ bpc = "fallback"
    /\ bidx < Len(bquestions)
    /\ \E outcome \in SingleOutcomes :
         LET q == FallbackQuestion(bquestions, bidx) IN
         /\ blog' = blog \o FallbackDelay(bidx)
                         \o << [ev |-> "single", q |-> q, out |-> outcome] >>
         /\ banswers' = Append(banswers, GenerateAnswer(outcome))
    /\ bidx' = bidx + 1
    /\ UNCHANGED <<bquestions, bpc, battempts, bparsed, bparseout>>
    /\ UNCHANGED <<storeVars, mainVars, chunkVars, phaseVars, authVars>>

\* "return answers" of the fallback, returned by the except branch (194, 255)
FallbackReturn ==
    /\ bpc = "fallback"
    /\ bidx = Len(bquestions)
    /\ bpc' = RetryWrapper(FALSE, battempts)
    /\ UNCHANGED <<bquestions, battempts, bidx, banswers, blog, bparsed, bparseout>>
    /\ UNCHANGED <<storeVars, mainVars, chunkVars, phaseVars, authVars>>

BatchNext == InvokeBatch \/ FallbackStep \/ FallbackReturn

(***************************************************************************)
(* Claims on answer synthesis                                              *)
(***************************************************************************)
BatchCallRaised == blog # <<>> /\ blog[1].ev = "batch" /\ blog[1].out.kind = "raise"

BatchReplyParsed == blog # <<>> /\ blog[1].ev = "batch" /\ ~ResponseFalsy(blog[1].out)
                        /\ blog[1].out.kind = "text"

\* C1: generate_batch_answers returns (it never raises) a list with exactly one
\* answer per question, whatever the backend did on the batch call and on the
\* per-question calls.
C1_ExactlyNAnswers ==
    /\ bpc # "retry_error"
    /\ bpc = "returned" => Len(banswers) = Len(bquestions)

\* C1 witness: three questions, the batch call raised, a per-question call
\* raised too, and the function has returned.
C1_Witness ==
    /\ bpc = "returned" /\ Len(bquestions) = 3 /\ BatchCallRaised
    /\ \E i \in 1..Len(blog) : blog[i].ev = "single" /\ blog[i].out.kind = "raise"

\* C8: with m answers parsed for N questions, _parse_batch_response returns the m
\* parsed answers followed by N - m "not available" sentinels when m < N, and
\* exactly the first N parsed answers when m > N.
C8_PadAndTruncate ==
    (bpc = "returned" /\ BatchReplyParsed) =>
        LET m == Len(bparsed)
            n == Len(bquestions)
        IN  /\ Len(bparseout) = n
            /\ \A i \in 1..n :
                 bparseout[i] = IF i <= m THEN bparsed[i] ELSE NOT_AVAILABLE

\* C8 witness: three questions, two numbered answers in the reply.
C8_Witness ==
    /\ bpc = "returned" /\ BatchReplyParsed
    /\ Len(bquestions) = 3 /\ Len(bparsed) = 2
    /\ bparseout[3] = NOT_AVAILABLE

\* C8 second case reached as well: more numbered answers than questions.
C8_WitnessTruncate ==
    bpc = "returned" /\ BatchReplyParsed /\ Len(bquestions) = 1 /\ Len(bparsed) = 3

\* C9: after a failed batch call the log holds, after the batch call, one
\* single-question call per question in input order, a sleep before each call
\* but the first; answer i is the outcome of call i, an error string when that
\* call raised, and later calls are made all the same.
C9_FallbackPerQuestion ==
    (bpc = "returned" /\ BatchCallRaised) =>
        LET n == Len(bquestions) IN
        /\ Len(blog) = 2 * n
        /\ Len(banswers) = n
        /\ \A i \in 1..n :
             /\ blog[2 * i].ev = "single"
             /\ blog[2 * i].q = bquestions[i]
             /\ i > 1 => blog[2 * i - 1].ev = "sleep"
             /\ blog[2 * i].out.kind = "raise" =>
                    banswers[i] = ErrorGenerating(blog[2 * i].out.err)
             /\ blog[2 * i].out.kind = "text" /\ ~ResponseFalsy(blog[2 * i].out) =>
                    banswers[i] = CleanAnswer(Strip(blog[2 * i].out.lines[1]))
             /\ ResponseFalsy(blog[2 * i].out) => banswers[i] = UNABLE

\* C9 witness: the first per-question call raised and the third one answered.
C9_Witness ==
    /\ bpc = "returned" /\ BatchCallRaised /\ Len(bquestions) = 3
    /\ blog[2].out.kind = "raise"
    /\ blog[6].out.kind = "text" /\ banswers[3] = <<"a", "b">>

\* the lines of the reply as the scan sees them: response_text.strip()
\* .split('\n'), each line stripped
ReplyLines == [k \in 1..Len(StripSplit(blog[1].out.lines)) |->
                 Strip(StripSplit(blog[1].out.lines)[k])]

\* the text after the '<digits>.' marker of a stripped line
MarkerText(line) == LStrip(SubSeq(line, DigitPrefix(line) + 2, Len(line)))

\* a stripped line with a leading '<digits>.' marker followed by text
IsMarkerLine(line) ==
    /\ DigitPrefix(line) >= 1
    /\ Len(line) > DigitPrefix(line) + 1
    /\ line[DigitPrefix(line) + 1] = "."
    /\ MarkerText(line) # <<>>

\* the positions of the marker lines of the reply
MarkerPositions == { k \in 1..Len(ReplyLines) : IsMarkerLine(ReplyLines[k]) }

\* the position of the i-th marker line
MarkerAt(i) ==
    CHOOSE k \in MarkerPositions : Cardinality({ j \in MarkerPositions : j <= k }) = i

RECURSIVE Continuation(_, _)
\* the non-blank lines from position k up to the next marker line, each
\* preceded by a space
Continuation(lines, k) ==
    IF k > Len(lines) \/ IsMarkerLine(lines[k]) THEN <<>>
    ELSE (IF lines[k] # <<>> THEN <<" ">> \o lines[k] ELSE <<>>)
         \o Continuation(lines, k + 1)

\* C24: the scan of _parse_batch_response finds one answer per marker line, in
\* the order of the marker lines whatever their numbers; answer i is the text
\* of the i-th marker line followed by the non-blank lines up to the next
\* marker line, joined by single spaces, and is the i-th answer returned as
\* far as there is a question for it.
C24_OneAnswerPerMarker ==
    (bpc = "returned" /\ BatchReplyParsed) =>
        /\ Len(bparsed) = Cardinality(MarkerPositions)
        /\ \A i \in 1..Len(bparsed) :
             /\ bparsed[i] = MarkerText(ReplyLines[MarkerAt(i)])
                                \o Continuation(ReplyLines, MarkerAt(i) + 1)
             /\ i <= Len(bquestions) => bparseout[i] = bparsed[i]

\* C24 witness: the reply "2.b", "1. a", "c": decreasing numbers and a
\* continuation line
C24_Witness ==
    /\ bpc = "returned" /\ BatchReplyParsed
    /\ blog[1].out.lines = << <<"2", ".", "b">>, <<"1", ".", " ", "a">>, <<"c">> >>
    /\ bparsed = << <<"b">>, <<"a", " ", "c">> >>
    /\ Len(bquestions) = 2

\* the backend calls made so far: batch prompts and single-question prompts
BackendCalls == { i \in 1..Len(blog) : blog[i].ev \in {"batch", "single"} }

\* no backend call has raised
NoBackendRaise == \A i \in BackendCalls : blog[i].out.kind # "raise"

C10_FallbackAfterRetries ==
    /\ battempts <= stop_after_attempt
    /\ bpc = "fallback" => battempts = stop_after_attempt

(***************************************************************************)
(* RAGVectorStore (src/services/rag_vector_store.py)                       *)
(* A vector is given by its dimension and its leading components, the     *)
(* remaining components being zero.  Similarities are in hundredths.       *)
(***************************************************************************)
\* rag_vector_store.py:19, self.dimension
dimension == 768

Vec(d, x, y) == [dim |-> d, x |-> x, y |-> y]

Dot(a, b) == a.x * b.x + a.y * b.y

\* np.linalg.norm on the modelled vectors (whose norms are whole numbers)
Norm(a) == CHOOSE n \in 0..10 : n * n = Dot(a, a)

\* mutant: the stored vector is not normalised
SimilarityRaw(a, q) ==
    IF Norm(q) > 0 THEN (100 * Dot(a, q)) \div Norm(q) ELSE 100 * Dot(a, q)

\* inner product of the L2-normalised stored vector a with the query q, which
\* is normalised only when its norm is positive (lines 48-49, 73-75), times 100
Similarity(a, q) ==
    IF Norm(q) > 0 THEN (100 * Dot(a, q)) \div (Norm(a) * Norm(q))
    ELSE (100 * Dot(a, q)) \div Norm(a)

\* RAGVectorStore.__init__
NewStore == [is_initialized |-> FALSE, chunks |-> <<>>, embeddings |-> <<>>, index |-> <<>>]

\* RAGVectorStore.initialize: a fresh, empty IndexFlatIP(dimension)
Initialize(st) == [st EXCEPT !.is_initialized = TRUE, !.index = <<>>]

\* np.array(embeddings, dtype=float32) followed by norm(axis=1) raises for an
\* empty list (no axis 1) and for rows of unequal length
ArrayRaises(embeddings) ==
    \/ embeddings = <<>>
    \/ \E i, j \in 1..Len(embeddings) : embeddings[i].dim # embeddings[j].dim

\* index.add(x) raises when the rows do not have the index dimension
AddRaises(embeddings) == \E i \in 1..Len(embeddings) : embeddings[i].dim # dimension

\* f"doc_{len(chunks)}_chunks"
DocumentId(chunks) == <<"doc_", Len(chunks), "_chunks">>

\* RAGVectorStore.store_document: the store afterwards, whether it raised, and
\* the returned document id
StoreDocument(st, chunks, embeddings) ==
    LET s0 == IF st.is_initialized THEN st ELSE Initialize(st)
        s1 == [s0 EXCEPT !.chunks = chunks, !.embeddings = embeddings]
    IN  IF ArrayRaises(embeddings)
        THEN [store |-> s1, raised |-> TRUE, document_id |-> <<>>]
        ELSE IF AddRaises(embeddings)
        THEN [store |-> [s1 EXCEPT !.index = <<>>], raised |-> TRUE, document_id |-> <<>>]
        ELSE [store |-> [s1 EXCEPT !.index = embeddings], raised |-> FALSE,
              document_id |-> DocumentId(chunks)]

Min(a, b) == IF a < b THEN a ELSE b

RECURSIVE TopK(_, _, _)
\* the ways to list k of the positions in "remaining" by non-increasing score,
\* no position left out having a higher score than one listed
TopK(sc, remaining, k) ==
    IF k = 0 THEN { <<>> }
    ELSE UNION { { <<p>> \o t : t \in TopK(sc, remaining \ {p}, k - 1) } :
                 p \in { p \in remaining : \A p2 \in remaining : sc[p2] <= sc[p] } }

\* the sequences self.index.search(query, k) may return (0-based labels turned
\* into positions 1..ntotal): k distinct vectors of highest inner product, by
\* non-increasing inner product; the order of equal products is the library's
SearchResults(index, q, k) ==
    TopK([p \in 1..Len(index) |-> Similarity(index[p], q)], 1..Len(index), k)

RECURSIVE CollectResults(_, _, _, _, _)
\* the loop of lines 81-87 over zip(scores[0], indices[0])
CollectResults(st, q, order, i, results) ==
    IF i > Len(order) THEN results
    ELSE CollectResults(st, q, order, i + 1,
            IF order[i] <= Len(st.chunks)
            THEN Append(results,
                        [chunk_id |-> st.chunks[order[i]].chunk_id,
                         content |-> st.chunks[order[i]].content,
                         similarity_score |-> Similarity(st.index[order[i]], q),
                         rank |-> Len(results) + 1])
            ELSE results)

\* mutant: results.sort(...) without reverse=True
RECURSIVE SortByScoreAscending(_)
SortByScoreAscending(results) ==
    IF results = <<>> THEN results
    ELSE LET i == CHOOSE i \in 1..Len(results) :
                    /\ \A j \in 1..Len(results) :
                         results[j].similarity_score >= results[i].similarity_score
                    /\ \A j \in 1..(i - 1) :
                         results[j].similarity_score > results[i].similarity_score
         IN  <<results[i]>> \o
             SortByScoreAscending(SubSeq(results, 1, i - 1)
                                  \o SubSeq(results, i + 1, Len(results)))

RECURSIVE SortByScore(_)
\* results.sort(key=similarity_score, reverse=True): a stable sort
SortByScore(results) ==
    IF results = <<>> THEN results
    ELSE LET i == CHOOSE i \in 1..Len(results) :
                    /\ \A j \in 1..Len(results) :
                         results[j].similarity_score <= results[i].similarity_score
                    /\ \A j \in 1..(i - 1) :
                         results[j].similarity_score < results[i].similarity_score
         IN  <<results[i]>> \o
             SortByScore(SubSeq(results, 1, i - 1) \o SubSeq(results, i + 1, Len(results)))

\* the values RAGVectorStore.retrieve_relevant_chunks may return; every
\* exception (wrong query dimension, k < 1 rejected by the index) is caught and
\* gives [] (lines 101-103)
RetrieveRelevantChunks(st, q, top_k) ==
    IF ~st.is_initialized \/ Len(st.index) = 0 THEN { <<>> }
    ELSE IF q.dim # dimension \/ Min(top_k, Len(st.index)) < 1 THEN { <<>> }
    ELSE { SortByScore(CollectResults(st, q, o, 1, <<>>)) :
             o \in SearchResults(st.index, q, Min(top_k, Len(st.index))) }

\* an exception inside the try block of retrieve_relevant_chunks: the index
\* rejects a query of another dimension and a k below 1 (lines 72-78)
SearchRaises(st, q, top_k) ==
    /\ st.is_initialized /\ Len(st.index) > 0
    /\ (q.dim # dimension \/ Min(top_k, Len(st.index)) < 1)

\* does an exception of the try block reach the caller?  "except Exception"
\* (lines 101-103) logs it and returns []
RetrievePropagates(search_raised) == FALSE

(***************************************************************************)
(* The vector store driven by arbitrary store / retrieve calls             *)
(***************************************************************************)
MaxChunks == 3
MaxTopK == 2
MaxStores == 1

Chunk(id) == [chunk_id |-> id, content |-> <<id>>]

\* the chunk lists handed to store_document: c1 c2 c3 ... cut to every length
ChunkLists == { [i \in 1..k |-> Chunk(<<"c", i>>)] : k \in 0..MaxChunks }

\* document embeddings: two directions (the embedding backend returns no zero
\* vector)
StoredVecPool == { Vec(dimension, 1, 0), Vec(dimension, 3, 4) }

\* the embedding lists handed to store_document: well-formed lists of every
\* length, a list of a wrong dimension and a list of rows of unequal length
EmbeddingLists ==
    SeqsUpTo(StoredVecPool, MaxChunks)
    \cup { << Vec(2, 1, 0) >>, << Vec(dimension, 1, 0), Vec(2, 1, 0) >> }

\* query embeddings: also the zero vector and a wrong dimension
QueryVecPool == { Vec(dimension, 1, 0), Vec(dimension, 0 - 4, 3), Vec(dimension, 0, 0),
                  Vec(2, 1, 0) }

NoRetrieve == [called |-> FALSE, q |-> Vec(dimension, 0, 0), top_k |-> 0,
               nstored |-> 0, results |-> <<>>, raised |-> FALSE]

NoStore == [called |-> FALSE, raised |-> FALSE, document_id |-> <<>>]

\* startup_event: rag_vector_store.initialize()
DoInitialize ==
    /\ ~vstore.is_initialized
    /\ vstore' = Initialize(vstore)
    /\ UNCHANGED <<rcall, scall, nstores>>
    /\ UNCHANGED <<batchVars, mainVars, chunkVars, phaseVars, authVars>>

\* a call of store_document
DoStore ==
    /\ nstores < MaxStores
    /\ nstores' = nstores + 1
    /\ UNCHANGED <<batchVars, mainVars, chunkVars, phaseVars, authVars>>
    /\ \E chunks \in ChunkLists, embeddings \in EmbeddingLists :
        LET r == StoreDocument(vstore, chunks, embeddings) IN
        /\ vstore' = r.store
        /\ scall' = [called |-> TRUE, raised |-> r.raised, document_id |-> r.document_id]
        /\ rcall' = NoRetrieve

\* a call of retrieve_relevant_chunks
DoRetrieve ==
    \E q \in QueryVecPool, top_k \in 0..MaxTopK :
      \E res \in RetrieveRelevantChunks(vstore, q, top_k) :
        /\ rcall' = [called |-> TRUE, q |-> q, top_k |-> top_k,
                     nstored |-> Len(vstore.chunks), results |-> res,
                     raised |-> RetrievePropagates(SearchRaises(vstore, q, top_k))]
        /\ UNCHANGED <<vstore, scall, nstores>>
        /\ UNCHANGED <<batchVars, mainVars, chunkVars, phaseVars, authVars>>

StoreNext == DoInitialize \/ DoStore \/ DoRetrieve

(***************************************************************************)
(* Claims on the vector store                                              *)
(***************************************************************************)
\* C7: retrieve_relevant_chunks returns at most min(top_k, stored chunks)
\* results (so none from an empty or uninitialised store), by non-increasing
\* similarity_score.
C7_AtMostKSorted ==
    rcall.called =>
        /\ Len(rcall.results) <= Min(rcall.top_k, rcall.nstored)
        /\ \A i, j \in 1..Len(rcall.results) :
             i < j => rcall.results[i].similarity_score >= rcall.results[j].similarity_score

\* C7 witness: three chunks stored, top_k = 2 cuts the list, and the two
\* results have different scores.
C7_Witness ==
    /\ rcall.called /\ rcall.nstored = 3 /\ rcall.top_k = 2
    /\ Len(rcall.results) = 2
    /\ rcall.results[1].similarity_score > rcall.results[2].similarity_score

\* C15 (as claimed): after every store_document call, failed or not, the
\* index holds one vector per stored chunk, the i-th vector being the i-th
\* embedding handed over with the stored chunk list.
C15_VectorsMatchChunks ==
    scall.called =>
        /\ Len(vstore.index) = Len(vstore.chunks)
        /\ \A i \in 1..Len(vstore.index) :
             i <= Len(vstore.embeddings) /\ vstore.index[i] = vstore.embeddings[i]

\* C16 (as claimed): a retrieve_relevant_chunks call on a populated index with
\* a query of another dimension than the index ends in an error the caller
\* sees (and so can tell from an empty result).
C16_DimensionMismatchRaises ==
    (/\ rcall.called /\ rcall.q.dim # dimension
     /\ vstore.is_initialized /\ Len(vstore.index) > 0) => rcall.raised

\* C17 (as claimed): store_document([], []) does not raise and leaves an
\* empty index, and the retrievals after it return [].  (store_document
\* copies its arguments into self.chunks and self.embeddings first, so after
\* the call they are the arguments.)
C17_EmptyStoreSucceeds ==
    (scall.called /\ vstore.chunks = <<>> /\ vstore.embeddings = <<>>) =>
        /\ ~scall.raised
        /\ Len(vstore.index) = 0
        /\ (rcall.called => rcall.results = <<>>)

\* the position of a result's chunk in the stored list
Ordinal(result) == result.chunk_id[2]

\* C20 (as claimed): results of equal similarity come in insertion order, and
\* a stored chunk left out by the top_k cut does not precede a returned chunk
\* of the same similarity.
C20_TiesInInsertionOrder ==
    rcall.called =>
        /\ \A i, j \in 1..Len(rcall.results) :
             (i < j /\ rcall.results[i].similarity_score = rcall.results[j].similarity_score)
                => Ordinal(rcall.results[i]) < Ordinal(rcall.results[j])
        /\ \A i \in 1..Len(rcall.results) :
             \A p \in 1..Min(Len(vstore.index), Len(vstore.chunks)) :
                (/\ \A j \in 1..Len(rcall.results) : Ordinal(rcall.results[j]) # p
                 /\ Similarity(vstore.index[p], rcall.q) = rcall.results[i].similarity_score)
                => p > Ordinal(rcall.results[i])

\* two embeddings on one line through the origin (the zero vector lies on all)
Collinear(a, b) == a.x * b.y = a.y * b.x

\* the last store_document call built the index: it did not raise, and chunks
\* and vectors are paired
IndexBuilt ==
    /\ scall.called /\ ~scall.raised
    /\ Len(vstore.index) = Len(vstore.chunks)

\* C22: on an index built from chunks of pairwise non-collinear embeddings, a
\* retrieval with top_k = 1 whose query is the embedding of stored chunk c
\* returns chunk c alone, with similarity 1.0.
C22_IdenticalQueryFindsChunk ==
    (/\ rcall.called /\ rcall.top_k = 1 /\ IndexBuilt
     /\ \A i, j \in 1..Len(vstore.index) :
            i # j => ~Collinear(vstore.index[i], vstore.index[j]))
        => \A c \in 1..Len(vstore.index) :
              vstore.index[c] = rcall.q =>
                 /\ Len(rcall.results) = 1
                 /\ rcall.results[1].chunk_id = vstore.chunks[c].chunk_id
                 /\ rcall.results[1].content = vstore.chunks[c].content
                 /\ rcall.results[1].similarity_score = 100

\* C22 witness: two chunks stored, the first of the larger raw inner product
\* with the query, which is the embedding of the second: the second is returned
C22_Witness ==
    /\ rcall.called /\ rcall.top_k = 1 /\ IndexBuilt
    /\ Len(vstore.index) = 2
    /\ ~Collinear(vstore.index[1], vstore.index[2])
    /\ vstore.index[2] = rcall.q
    /\ Dot(vstore.index[1], rcall.q) > Dot(vstore.index[2], rcall.q)
    /\ Len(rcall.results) = 1
    /\ rcall.results[1].chunk_id = vstore.chunks[2].chunk_id


(***************************************************************************)
(* src/main.py: document_cache and the /hackrx/run endpoint                *)
(***************************************************************************)
\* main.py:29
CACHE_EXPIRY == 3600

\* rag_service.py:45, batch_size of create_embeddings
batch_size == 10

MaxTime == 3601
MaxRequests == 3

Requests == {1, 2}

\* request.documents values
Urls == {"urlA", "urlB"}

\* hashlib.md5(request.documents.encode()).hexdigest()
Fingerprint(url) == <<"md5", url>>

Fingerprints == {Fingerprint(u) : u \in Urls}

\* number of chunks semantic_chunker.chunk_document makes of the text behind
\* the URL: a short document, and one that needs two embedding batches
DocSize(url) == IF url = "urlA" THEN 2 ELSE batch_size + 1

\* the chunks of the document behind the URL (main.py:161-165)
DocChunks(url) == [i \in 1..DocSize(url) |-> Chunk(<<url, i>>)]

Directions ==
    << Vec(dimension, 1, 0), Vec(dimension, 0, 1), Vec(dimension, 3, 4),
       Vec(dimension, 4, 3), Vec(dimension, 0 - 3, 4), Vec(dimension, 0 - 4, 3),
       Vec(dimension, 0 - 1, 0), Vec(dimension, 0 - 4, 0 - 3),
       Vec(dimension, 0 - 3, 0 - 4), Vec(dimension, 0, 0 - 1),
       Vec(dimension, 3, 0 - 4) >>

\* genai.embed_content(task_type="retrieval_document") of chunk i of a document
DocumentEmbedding(url, i) == Directions[i]

\* genai.embed_content(task_type="retrieval_query") of a question
QueryEmbedding(question) ==
    IF question = "q1" THEN Vec(dimension, 3, 4) ELSE Vec(dimension, 4, 3)

QuestionLists == { <<"q1", "q2">> }

NoEntry == [present |-> FALSE, document_id |-> <<>>, processed_at |-> 0]

\* mutant: ">=" in place of ">"
ExpiredAtTTL(entry, current_time) == current_time - entry.processed_at >= CACHE_EXPIRY

\* main.py:36, the condition of the sweep
Expired(entry, current_time) == current_time - entry.processed_at > CACHE_EXPIRY

\* mutant: the sweep stamps the entries it keeps with the current time
CleanExpiredCacheTouch(cache, current_time) ==
    [fp \in Fingerprints |->
        IF cache[fp].present
        THEN IF Expired(cache[fp], current_time) THEN NoEntry
             ELSE [cache[fp] EXCEPT !.processed_at = current_time]
        ELSE cache[fp]]

\* clean_expired_cache (main.py:31-39)
CleanExpiredCache(cache, current_time) ==
    [fp \in Fingerprints |->
        IF cache[fp].present /\ Expired(cache[fp], current_time) THEN NoEntry ELSE cache[fp]]

\* mutant: the lookup never finds the entry
NeverInCache(cache, doc_hash) == FALSE

\* "doc_hash in document_cache" (main.py:153)
InCache(cache, doc_hash) == cache[doc_hash].present

IdleRequest ==
    [pc |-> "idle", url |-> "", questions |-> <<>>, branch |-> "none",
     document_id |-> <<>>, chunks |-> <<>>, embeddings |-> <<>>, fidx |-> 0,
     nanswers |-> 0,
     \* observations kept for the properties
     swept_own |-> FALSE, build_steps |-> <<>>, searched |-> {}]

CanRun(r) == running = 0 \/ running = r

\* the request carries no bearer credentials
NoCredentials == "none"

\* os.getenv("ALLOWED_API_KEYS", "").split(",") (main.py:67)
ALLOWED_API_KEYS == {"key1"}

\* what a request may carry in its Authorization header
Credentials == {NoCredentials, "key1", "key2"}

\* security = HTTPBearer() (main.py:66): a request without bearer credentials
\* is answered 403, as src/tests/test_api.py:24-32 expects; 0: no error
SecurityStatus(credentials) == IF credentials = NoCredentials THEN 403 ELSE 0

\* mutant: the key is compared without the HTTPBearer check before it
VerifyApiKeyOnly(credentials) == IF credentials \notin ALLOWED_API_KEYS THEN 401 ELSE 0

\* Depends(verify_api_key) (main.py:69-76, 136): the status of the HTTP error
\* that ends the request before process_query_rag is entered; 0: none
VerifyApiKey(credentials) ==
    IF SecurityStatus(credentials) # 0 THEN SecurityStatus(credentials)
    ELSE IF credentials \notin ALLOWED_API_KEYS THEN 401
    ELSE 0

NoAuth == [credentials |-> "", status |-> 0]

\* a POST /hackrx/run that the security dependency refuses: the body of
\* process_query_rag does not run
RejectRequest ==
    /\ \E credentials \in Credentials :
         /\ VerifyApiKey(credentials) # 0
         /\ auth' = [credentials |-> credentials, status |-> VerifyApiKey(credentials)]
    /\ UNCHANGED <<batchVars, storeVars, mainVars, chunkVars, phaseVars>>

\* time passes
TickSteps == {CACHE_EXPIRY \div 2, CACHE_EXPIRY + 1}

Tick ==
    /\ \E d \in TickSteps : now + d <= MaxTime /\ now' = now + d
    /\ UNCHANGED <<document_cache, req, running, nrequests, vstore>>
    /\ UNCHANGED <<batchVars, rcall, scall, nstores, chunkVars, phaseVars, authVars>>

\* no coroutine runs in slot r
Free(r) == req[r].pc \in {"idle", "done", "failed"}

\* process_query_rag from its entry to the cache decision (main.py:143-158)
StartRequest(r) ==
    /\ running = 0
    /\ Free(r)
    /\ \A r2 \in Requests : r2 < r => ~Free(r2)
    /\ nrequests < MaxRequests
    /\ nrequests' = nrequests + 1
    /\ \E url \in Urls, questions \in QuestionLists :
         LET swept == CleanExpiredCache(document_cache, now)
             doc_hash == Fingerprint(url)
             hit == InCache(swept, doc_hash)
         IN  /\ document_cache' = swept
             /\ req' = [req EXCEPT ![r] =
                    [IdleRequest EXCEPT
                        !.pc = IF hit THEN "phase2" ELSE "download",
                        !.url = url,
                        !.questions = questions,
                        !.branch = IF hit THEN "cached" ELSE "index",
                        !.document_id = IF hit THEN swept[doc_hash].document_id ELSE <<>>,
                        !.swept_own = document_cache[doc_hash].present /\ ~hit]]
    /\ running' = r
    /\ UNCHANGED <<now, vstore>>
    /\ UNCHANGED <<batchVars, rcall, scall, nstores, chunkVars, phaseVars, authVars>>

\* the request ends with HTTP 500 (main.py:281-286); its locals are gone
Fail(r) == [req EXCEPT ![r] = [IdleRequest EXCEPT !.pc = "failed", !.url = req[r].url]]

\* the request ends with QueryResponse(answers=answers) (main.py:279)
Done(r) == [IdleRequest EXCEPT !.pc = "done", !.url = req[r].url]

\* what process_document makes of the URL: the text of the document, a text
\* without content (chunk_document returns no chunk), an exception
DownloadOutcomes == {"text", "empty", "raise"}

\* steps 1a and 1b: process_document, which blocks without suspending, and
\* chunk_document (main.py:161-170)
DownloadAndChunk(r) ==
    /\ CanRun(r)
    /\ req[r].pc = "download"
    /\ \E outcome \in DownloadOutcomes :
         IF outcome # "raise"
         THEN /\ req' = [req EXCEPT ![r].pc = "embed",
                                    ![r].chunks = IF outcome = "text"
                                                  THEN DocChunks(req[r].url) ELSE <<>>,
                                    ![r].build_steps = @ \o <<"download", "chunk">>]
              /\ running' = r
         ELSE /\ req' = Fail(r)
              /\ running' = 0
    /\ UNCHANGED <<now, document_cache, nrequests, vstore>>
    /\ UNCHANGED <<batchVars, rcall, scall, nstores, chunkVars, phaseVars, authVars>>

\* one batch of create_embeddings (rag_service.py:46-63); the coroutine sleeps
\* after a batch that is not the last one
EmbedBatch(r) ==
    /\ CanRun(r)
    /\ req[r].pc = "embed"
    /\ LET i == Len(req[r].embeddings)
           n == Len(req[r].chunks)
           upto == Min(i + batch_size, n)
       IN  \E ok \in BOOLEAN :
             IF ok
             THEN /\ req' = [req EXCEPT
                       ![r].embeddings =
                           @ \o [k \in 1..(upto - i) |-> DocumentEmbedding(req[r].url, i + k)],
                       ![r].build_steps = @ \o <<"embed">>,
                       ![r].pc = IF i + batch_size < n THEN "embed" ELSE "store"]
                  /\ running' = IF i + batch_size < n THEN 0 ELSE r
             ELSE /\ req' = Fail(r)
                  /\ running' = 0
    /\ UNCHANGED <<now, document_cache, nrequests, vstore>>
    /\ UNCHANGED <<batchVars, rcall, scall, nstores, chunkVars, phaseVars, authVars>>

\* mutant: the entry does not carry the time of the write
CacheEntryEpoch(document_id, current_time) ==
    [present |-> TRUE, document_id |-> document_id, processed_at |-> 0]

\* the cache entry written at main.py:177-180
CacheEntry(document_id, current_time) ==
    [present |-> TRUE, document_id |-> document_id, processed_at |-> current_time]

\* mutant: the entry is written although store_document raised
CacheAfterStoreAlways(cache, doc_hash, res, current_time) ==
    [cache EXCEPT ![doc_hash] = CacheEntry(res.document_id, current_time)]

\* document_cache after line 174: the assignment of lines 177-180 is reached
\* only when store_document returned
CacheAfterStore(cache, doc_hash, res, current_time) ==
    IF res.raised THEN cache
    ELSE [cache EXCEPT ![doc_hash] = CacheEntry(res.document_id, current_time)]

\* step 1d and the cache write (main.py:174-182)
StoreAndCache(r) ==
    /\ CanRun(r)
    /\ req[r].pc = "store"
    /\ LET res == StoreDocument(vstore, req[r].chunks, req[r].embeddings) IN
         /\ vstore' = res.store
         /\ IF res.raised
            THEN /\ req' = Fail(r)
                 /\ running' = 0
            ELSE /\ req' = [req EXCEPT ![r].pc = "phase2",
                                       ![r].document_id = res.document_id,
                                       ![r].build_steps = @ \o <<"store">>]
                 /\ running' = r
         /\ document_cache' = CacheAfterStore(document_cache, Fingerprint(req[r].url), res, now)
    /\ UNCHANGED <<now, nrequests>>
    /\ UNCHANGED <<batchVars, rcall, scall, nstores, chunkVars, phaseVars, authVars>>


\* RAGVectorStore.get_all_chunks (rag_vector_store.py:105-126)
GetAllChunks(st) ==
    [i \in 1..Len(st.chunks) |->
        [chunk_id |-> st.chunks[i].chunk_id, content |-> st.chunks[i].content,
         similarity_score |-> 100, rank |-> i]]

\* the chunk ids a retrieval on the store looks up its hits in (self.chunks)
StoredIds(st) == [i \in 1..Len(st.chunks) |-> st.chunks[i].chunk_id]

RECURSIVE Retrievals(_, _, _)
\* one retrieval per question, in order: the possible lists of result lists
Retrievals(st, questions, top_k) ==
    IF questions = <<>> THEN { <<>> }
    ELSE { <<first>> \o rest :
             first \in RetrieveRelevantChunks(st, QueryEmbedding(Head(questions)), top_k),
             rest \in Retrievals(st, Tail(questions), top_k) }

\* phase 2, batched (main.py:187-223): a query embedding and a retrieval per
\* question, then generate_batch_answers; fail_at is the first question whose
\* create_query_embedding raises (0: none)
Phase2(r) ==
    /\ CanRun(r)
    /\ req[r].pc = "phase2"
    /\ \E fail_at \in 0..Len(req[r].questions) :
         LET n == Len(req[r].questions)
             asked == IF fail_at = 0 THEN n ELSE fail_at - 1
         IN  \E rs \in Retrievals(vstore, SubSeq(req[r].questions, 1, asked), 3) :
             \E generated \in BOOLEAN :
               /\ fail_at # 0 => generated
               /\ req' = [req EXCEPT
                     ![r].searched = IF asked > 0 THEN @ \cup {StoredIds(vstore)} ELSE @,
                     ![r].fidx = 0,
                     ![r].nanswers = IF fail_at = 0 /\ generated THEN n ELSE 0,
                     ![r].pc = IF fail_at # 0 THEN "mainfallback"
                               ELSE IF generated THEN "respond" ELSE "genfallback"]
               /\ running' = IF fail_at = 0 /\ generated THEN 0 ELSE r
    /\ UNCHANGED <<now, document_cache, nrequests, vstore>>
    /\ UNCHANGED <<batchVars, rcall, scall, nstores, chunkVars, phaseVars, authVars>>

\* one iteration of RAGService._fallback_individual_processing, entered when
\* the batch generation call raised; the coroutine sleeps before the next one
GenFallbackStep(r) ==
    /\ CanRun(r)
    /\ req[r].pc = "genfallback"
    /\ LET last == req[r].fidx + 1 = Len(req[r].questions) IN
         /\ req' = [req EXCEPT ![r].nanswers = @ + 1,
                               ![r].fidx = @ + 1,
                               ![r].pc = IF last THEN "respond" ELSE "genfallback"]
         /\ running' = 0
    /\ UNCHANGED <<now, document_cache, nrequests, vstore>>
    /\ UNCHANGED <<batchVars, rcall, scall, nstores, chunkVars, phaseVars, authVars>>

\* one iteration of the loop of main.py:258-262 with process_rag_question
\* (226-254); the coroutine sleeps before the next iteration
MainFallbackStep(r) ==
    /\ CanRun(r)
    /\ req[r].pc = "mainfallback"
    /\ LET question == req[r].questions[req[r].fidx + 1]
           last == req[r].fidx + 1 = Len(req[r].questions)
       IN  \E embedded \in BOOLEAN :
             IF embedded
             THEN \E found \in RetrieveRelevantChunks(vstore, QueryEmbedding(question), 5) :
                    LET relevant_chunks == IF found = <<>>
                                           THEN SubSeq(GetAllChunks(vstore), 1,
                                                       Min(5, Len(vstore.chunks)))
                                           ELSE found
                    IN  req' = [req EXCEPT
                            ![r].searched = @ \cup {StoredIds(vstore)},
                            ![r].nanswers = @ + 1,
                            ![r].fidx = @ + 1,
                            ![r].pc = IF last THEN "respond" ELSE "mainfallback"]
             ELSE req' = [req EXCEPT
                            ![r].nanswers = @ + 1,
                            ![r].fidx = @ + 1,
                            ![r].pc = IF last THEN "respond" ELSE "mainfallback"]
    /\ running' = 0
    /\ UNCHANGED <<now, document_cache, nrequests, vstore>>
    /\ UNCHANGED <<batchVars, rcall, scall, nstores, chunkVars, phaseVars, authVars>>

\* db_service.store_query_result and the response (main.py:265-286)
Respond(r) ==
    /\ CanRun(r)
    /\ req[r].pc = "respond"
    /\ \E stored \in BOOLEAN :
         req' = [req EXCEPT ![r] = IF stored THEN Done(r) ELSE Fail(r)[r]]
    /\ running' = 0
    /\ UNCHANGED <<now, document_cache, nrequests, vstore>>
    /\ UNCHANGED <<batchVars, rcall, scall, nstores, chunkVars, phaseVars, authVars>>

MainNext ==
    \/ Tick
    \/ \E r \in Requests : StartRequest(r)
    \/ \E r \in Requests : DownloadAndChunk(r)
    \/ \E r \in Requests : EmbedBatch(r)
    \/ \E r \in Requests : StoreAndCache(r)
    \/ \E r \in Requests : Phase2(r)
    \/ \E r \in Requests : GenFallbackStep(r)
    \/ \E r \in Requests : MainFallbackStep(r)
    \/ \E r \in Requests : Respond(r)

\* the endpoint with refused requests between the steps of accepted ones
AuthNext ==
    \/ RejectRequest
    \/ \E r \in Requests : StartRequest(r)
    \/ \E r \in Requests : DownloadAndChunk(r)
    \/ \E r \in Requests : EmbedBatch(r)
    \/ \E r \in Requests : StoreAndCache(r)
    \/ \E r \in Requests : Phase2(r)
    \/ \E r \in Requests : GenFallbackStep(r)
    \/ \E r \in Requests : MainFallbackStep(r)
    \/ \E r \in Requests : Respond(r)


(***************************************************************************)
(* Claims on the security dependency                                       *)
(***************************************************************************)
\* C23: a request without bearer credentials is refused with 403, one whose
\* key is not in ALLOWED_API_KEYS with 401, and the step that refuses a
\* request changes neither document_cache nor the vector store nor any
\* request in progress.
C23_RefusedWithoutProcessing ==
    /\ [](auth # NoAuth =>
            /\ auth.credentials = NoCredentials => auth.status = 403
            /\ auth.credentials # NoCredentials => auth.status = 401)
    /\ [][auth' # auth => UNCHANGED <<document_cache, vstore, req, nrequests>>]_vars

\* C23 witness: a request with a wrong key was refused while a document is
\* cached and stored
C23_Witness ==
    /\ auth.credentials = "key2" /\ auth.status = 401
    /\ \E fp \in Fingerprints : document_cache[fp].present
    /\ vstore.chunks # <<>>

(***************************************************************************)
(* Claims on the document cache                                            *)
(***************************************************************************)
\* the step of slot r is the entry of a new request
Starts(r) == Free(r) /\ ~Free(r)'

\* the ids of the chunks of the document behind the URL
DocIds(url) == [i \in 1..DocSize(url) |-> <<url, i>>]

\* C2 (as claimed): a request that found its fingerprint in document_cache
\* retrieves from the chunks of its own document only.
C2_CachedServedFromOwnIndex ==
    \A r \in Requests :
        req[r].branch = "cached" =>
            \A ids \in req[r].searched : ids = DocIds(req[r].url)

\* C3: a request that starts while document_cache holds an entry for its
\* fingerprint of age <= CACHE_EXPIRY takes the cached branch and leaves the
\* entry as it is, and a request on the cached branch runs no build step
\* (download, chunking, embedding, store_document).
C3_CachedWithinTTLNoBuild ==
    /\ [](\A r \in Requests : req[r].branch = "cached" => req[r].build_steps = <<>>)
    /\ [][\A r \in Requests :
            Starts(r) =>
                LET fp == Fingerprint(req'[r].url)
                    e == document_cache[fp]
                IN  (e.present /\ now - e.processed_at <= CACHE_EXPIRY) =>
                        /\ req'[r].branch = "cached"
                        /\ req'[r].pc = "phase2"
                        /\ document_cache'[fp] = e]_vars

\* C3 witness: a request on the cached branch whose entry is exactly
\* CACHE_EXPIRY old.
C3_Witness ==
    \E r \in Requests :
        /\ req[r].branch = "cached" /\ req[r].pc = "phase2"
        /\ document_cache[Fingerprint(req[r].url)].present
        /\ now - document_cache[Fingerprint(req[r].url)].processed_at = CACHE_EXPIRY

\* C4: the sweep at the start of a request removes exactly the entries with
\* now - processed_at > CACHE_EXPIRY, and no other step removes an entry; a
\* request whose own entry was swept takes the indexing branch, and when its
\* build is through the entry of its fingerprint carries the current time.
C4_SweepAtStartAndRebuild ==
    /\ [][\A r \in Requests :
            Starts(r) =>
                /\ \A fp \in Fingerprints :
                     document_cache'[fp] =
                        IF document_cache[fp].present
                           /\ now - document_cache[fp].processed_at > CACHE_EXPIRY
                        THEN NoEntry ELSE document_cache[fp]
                /\ LET own == Fingerprint(req'[r].url) IN
                     (document_cache[own].present /\ ~document_cache'[own].present) =>
                        (req'[r].branch = "index" /\ req'[r].pc = "download")]_vars
    /\ [][(\E fp \in Fingerprints : document_cache[fp].present /\ ~document_cache'[fp].present)
            => \E r \in Requests : Starts(r)]_vars
    /\ [][\A r \in Requests :
            (req[r].pc = "store" /\ req'[r].pc = "phase2") =>
                LET e == document_cache'[Fingerprint(req[r].url)] IN
                /\ e.present /\ e.processed_at = now
                /\ req'[r].build_steps[1] = "download"
                /\ req'[r].build_steps[Len(req'[r].build_steps)] = "store"]_vars

\* C4 witness: a request whose own entry was swept at its start has rebuilt the
\* index and written an entry with the current time.
C4_Witness ==
    \E r \in Requests :
        /\ req[r].swept_own /\ req[r].branch = "index" /\ req[r].pc = "phase2"
        /\ document_cache[Fingerprint(req[r].url)].processed_at = now
        /\ now > CACHE_EXPIRY

\* the step of slot r is store_document returning and the cache write
Writes(r) == req[r].pc = "store" /\ req'[r].pc = "phase2"

\* request r took the indexing branch and has written its cache entry
Indexed(r) ==
    /\ req[r].branch = "index"
    /\ req[r].pc \in {"phase2", "genfallback", "mainfallback", "respond"}

\* C27: two requests of one uncached fingerprint can both take the indexing
\* branch and both build.  Every writer replaces the chunks and vectors of the
\* store by its own and sets the one entry of its fingerprint to its
\* document_id and the time of its write, leaving the other entries alone, so
\* that once both have indexed, the entry and the store are those of the
\* later writer.
C27_LaterWriterWins ==
    /\ [][\A r \in Requests :
            Writes(r) =>
                /\ document_cache'[Fingerprint(req[r].url)] =
                       [present |-> TRUE, document_id |-> DocumentId(req[r].chunks),
                        processed_at |-> now]
                /\ \A fp \in Fingerprints \ {Fingerprint(req[r].url)} :
                       document_cache'[fp] = document_cache[fp]
                /\ vstore'.chunks = req[r].chunks
                /\ vstore'.embeddings = req[r].embeddings
                /\ Len(vstore'.index) = Len(req[r].chunks)]_vars
    /\ [](\A r1, r2 \in Requests :
            (r1 # r2 /\ req[r1].url = req[r2].url /\ Indexed(r1) /\ Indexed(r2)) =>
                /\ document_cache[Fingerprint(req[r1].url)].present
                /\ vstore.chunks = req[r1].chunks
                /\ Len(vstore.index) = Len(vstore.chunks))

\* C27 witness: both requests found no entry for the fingerprint of urlB and
\* both have built and written; the entry carries the time of the second
\* write, made after the clock moved
C27_Witness ==
    /\ req[1].url = "urlB" /\ req[2].url = "urlB"
    /\ Indexed(1) /\ Indexed(2)
    /\ document_cache[Fingerprint("urlB")].processed_at = now /\ now > 0
    /\ ~document_cache[Fingerprint("urlA")].present
    /\ vstore.chunks = DocChunks("urlB")

\* request r is in phase 1, between the cache test and the cache write
Building(r) == req[r].branch = "index" /\ req[r].pc \in {"download", "embed", "store"}

\* the step ends request r with HTTP 500 during phase 1
FailsBuilding(r) == Building(r) /\ req'[r].pc = "failed"

\* C29: a request whose download, chunking, embedding or store_document fails
\* ends as failed and the failing step leaves document_cache as it was: no
\* entry is written for its fingerprint and no other entry changes.  A request
\* writes an entry only with the step in which store_document returns, and a
\* request that starts while its fingerprint has no entry builds from the
\* download on.
C29_FailedBuildNotCached ==
    /\ [][\A r \in Requests :
            FailsBuilding(r) => (Free(r)' /\ document_cache' = document_cache)]_vars
    /\ [][\A fp \in Fingerprints :
            (~document_cache[fp].present /\ document_cache'[fp].present) =>
                \E r \in Requests : Writes(r) /\ Fingerprint(req[r].url) = fp]_vars
    /\ [][\A r \in Requests :
            (Starts(r) /\ ~document_cache[Fingerprint(req'[r].url)].present) =>
                (req'[r].branch = "index" /\ req'[r].pc = "download"
                 /\ req'[r].build_steps = <<>>)]_vars

\* C29 witness: the document behind urlA is indexed and cached; a request for
\* urlB has failed in store_document, which emptied the store: there is no
\* entry for urlB and the entry of urlA is in place
C29_Witness ==
    \E r \in Requests :
        /\ req[r].pc = "failed" /\ req[r].url = "urlB"
        /\ vstore.chunks = <<>> /\ vstore.is_initialized
        /\ ~document_cache[Fingerprint("urlB")].present
        /\ document_cache[Fingerprint("urlA")].present

\* the step is one of request r, which found its fingerprint in the cache
CachedStep(r) == req[r].branch = "cached" /\ req'[r] # req[r]

\* C30: a request that finds its fingerprint in document_cache changes the
\* cache by the sweep of its start only, which leaves the entry it hit as it
\* is (document_id and processed_at); the request takes its document_id from
\* that entry, and none of its steps changes the cache or the chunks and
\* vectors of the store.
C30_CacheHitReadsOnly ==
    /\ [][\A r \in Requests :
            (Starts(r) /\ req'[r].branch = "cached") =>
                LET fp == Fingerprint(req'[r].url) IN
                /\ document_cache[fp].present
                /\ document_cache'[fp] = document_cache[fp]
                /\ req'[r].document_id = document_cache[fp].document_id
                /\ \A other \in Fingerprints :
                     document_cache'[other] \in {document_cache[other], NoEntry}
                /\ vstore' = vstore]_vars
    /\ [][\A r \in Requests :
            CachedStep(r) => (document_cache' = document_cache /\ vstore' = vstore)]_vars

\* C30 witness: a request for urlB has hit the entry of urlB, has retrieved
\* and is about to respond; the expired entry of urlA has been swept, the entry
\* hit is in place
C30_Witness ==
    \E r \in Requests :
        /\ req[r].branch = "cached" /\ req[r].url = "urlB" /\ req[r].pc = "respond"
        /\ req[r].searched # {}
        /\ document_cache[Fingerprint("urlB")].present
        /\ req[r].document_id = document_cache[Fingerprint("urlB")].document_id
        /\ ~document_cache[Fingerprint("urlA")].present
        /\ vstore.chunks = DocChunks("urlB")

\* C28 (as claimed): under every interleaving of requests, each retrieval of a
\* request looks up its hits in the chunks of the request's own document: no
\* other request has repopulated the store between the request's indexing or
\* cache test and its last retrieval.
C28_RetrievalsFromOwnDocument ==
    \A r \in Requests :
        \A r2 \in Requests \ {r} :
            (~Free(r) /\ req[r2].url # req[r].url) =>
                \A ids \in req[r].searched : ids = DocIds(req[r].url)

(***************************************************************************)
(* SemanticChunker (services/semantic_chunker.py)                          *)
(* The chunker's thresholds are thousands of characters, so a text is kept *)
(* run-length encoded: a sequence of runs [c, n], n repetitions of unit c. *)
(* Units: "a" a lower-case ASCII letter that spells no keyword, "w" a      *)
(* character of three UTF-8 bytes, " " and "\n" white space, "." a         *)
(* sentence terminator, "@", and "award", the five letters that section    *)
(* pattern 6 (certifications?|awards?|achievements?) matches.              *)
(***************************************************************************)
chunk_size == 1500

overlap == 200

max_chunk_size == 20000

\* _force_chunk_large_document: window, byte test, truncation
safe_size == 10000

byte_limit == 15000

extra_safe == 8000

\* _fallback_chunking: cap of the window, truncation
fallback_cap == 15000

very_safe == 10000

\* _extract_header_info looks at the first 10 lines
header_lines == 10

NL == "\n"

Run(c, n) == [c |-> c, n |-> n]

\* len() of one unit
UnitLen(c) == IF c \in {"award", "Award"} THEN 5 ELSE 1

\* len(unit.encode('utf-8'))
UnitBytes(c) == IF c = "w" THEN 3 ELSE UnitLen(c)

\* sum() of a sequence of numbers (by halves: the evaluation stays shallow)
RECURSIVE SumSeq(_)
SumSeq(s) ==
    IF Len(s) = 0 THEN 0
    ELSE IF Len(s) = 1 THEN s[1]
    ELSE SumSeq(SubSeq(s, 1, Len(s) \div 2)) + SumSeq(SubSeq(s, Len(s) \div 2 + 1, Len(s)))

MinOf(S) == CHOOSE x \in S : \A y \in S : x <= y

MaxOf(S) == CHOOSE x \in S : \A y \in S : y <= x

\* len(text)
TLen(t) == SumSeq([i \in 1..Len(t) |-> t[i].n * UnitLen(t[i].c)])

\* len(text.encode('utf-8'))
TBytes(t) == SumSeq([i \in 1..Len(t) |-> t[i].n * UnitBytes(t[i].c)])

\* neighbouring runs of one unit are one run
RECURSIVE MergeRuns(_)
MergeRuns(t) ==
    IF Len(t) <= 1 THEN t
    ELSE LET a == MergeRuns(SubSeq(t, 1, Len(t) \div 2))
             b == MergeRuns(SubSeq(t, Len(t) \div 2 + 1, Len(t)))
         IN  IF a[Len(a)].c = b[1].c
             THEN SubSeq(a, 1, Len(a) - 1) \o <<Run(b[1].c, a[Len(a)].n + b[1].n)>> \o Tail(b)
             ELSE a \o b

\* the one encoding of a string: no empty run, no two neighbouring runs of a unit
Canon(t) == MergeRuns(SelectSeq(t, LAMBDA r : r.n # 0))

\* a + b
Cat(a, b) == Canon(a \o b)

\* the number of leading runs that lie wholly inside text[:k]
WholeRuns(t, k) == MaxOf({i \in 0..Len(t) : TLen(SubSeq(t, 1, i)) <= k})

\* text[:k]; a keyword cut in the middle leaves plain letters
Take(t, k) ==
    IF k <= 0 THEN <<>>
    ELSE LET m == WholeRuns(t, k)
             left == k - TLen(SubSeq(t, 1, m))
         IN  IF m = Len(t) THEN t
             ELSE Canon(SubSeq(t, 1, m)
                        \o <<Run(t[m + 1].c, left \div UnitLen(t[m + 1].c)),
                             Run("a", left % UnitLen(t[m + 1].c))>>)

\* text[k:]
Drop(t, k) ==
    IF k <= 0 THEN t
    ELSE IF k >= TLen(t) THEN <<>>
    ELSE LET m == WholeRuns(t, k)
             rest == TLen(SubSeq(t, 1, m + 1)) - k
         IN  Canon(<<Run("a", rest % UnitLen(t[m + 1].c)),
                     Run(t[m + 1].c, rest \div UnitLen(t[m + 1].c))>>
                   \o SubSeq(t, m + 2, Len(t)))

\* text[i:j]
Slice(t, i, j) == Take(Drop(t, i), j - i)

IsSpace(c) == c \in {" ", NL}

\* the positions of the runs that are not white space
NonSpaceRuns(t) == {i \in 1..Len(t) : ~IsSpace(t[i].c)}

\* str.lstrip, str.rstrip, str.strip
TLStrip(t) == IF NonSpaceRuns(t) = {} THEN <<>> ELSE SubSeq(t, MinOf(NonSpaceRuns(t)), Len(t))

TRStrip(t) == IF NonSpaceRuns(t) = {} THEN <<>> ELSE SubSeq(t, 1, MaxOf(NonSpaceRuns(t)))

TStrip(t) == TRStrip(TLStrip(t))

\* what one run contributes to a split: a separator run ends a piece and
\* starts the next one, any other run is (part of) one piece.
\*   "lines"       str.split('\n'): every newline separates
\*   "paragraphs"  str.split('\n\n'): the separators are taken from the left
\*                 of a run of newlines, an odd newline stays with the next piece
\*   "sentences"   re.split(r'[.!?]+'): a run of terminators separates once
\*   "words"       str.split(): a run of white space separates once
RunPieces(r, sep) ==
    CASE sep = "lines" /\ r.c = NL -> [k \in 1..(r.n + 1) |-> <<>>]
      [] sep = "paragraphs" /\ r.c = NL /\ r.n >= 2 ->
            [k \in 1..(r.n \div 2 + 1) |->
                IF k = r.n \div 2 + 1 THEN Canon(<<Run(NL, r.n % 2)>>) ELSE <<>>]
      [] sep = "sentences" /\ r.c = "." -> << <<>>, <<>> >>
      [] sep = "words" /\ IsSpace(r.c) -> << <<>>, <<>> >>
      [] OTHER -> << <<r>> >>

\* the pieces of a text: the last piece of the left half continues in the
\* first piece of the right half
RECURSIVE SplitRuns(_, _)
SplitRuns(t, sep) ==
    IF Len(t) = 0 THEN << <<>> >>
    ELSE IF Len(t) = 1 THEN RunPieces(t[1], sep)
    ELSE LET a == SplitRuns(SubSeq(t, 1, Len(t) \div 2), sep)
             b == SplitRuns(SubSeq(t, Len(t) \div 2 + 1, Len(t)), sep)
         IN  SubSeq(a, 1, Len(a) - 1) \o <<a[Len(a)] \o b[1]>> \o Tail(b)

SplitLines(t) == SplitRuns(Canon(t), "lines")

SplitParagraphs(t) == SplitRuns(Canon(t), "paragraphs")

SplitSentences(t) == SplitRuns(Canon(t), "sentences")

Words(t) == SelectSeq(SplitRuns(Canon(t), "words"), LAMBDA p : p # <<>>)

\* sep.join(pieces)
RECURSIVE JoinRuns(_, _)
JoinRuns(pieces, sep) ==
    IF Len(pieces) = 0 THEN <<>>
    ELSE IF Len(pieces) = 1 THEN pieces[1]
    ELSE JoinRuns(SubSeq(pieces, 1, Len(pieces) \div 2), sep) \o sep
         \o JoinRuns(SubSeq(pieces, Len(pieces) \div 2 + 1, Len(pieces)), sep)

Join(pieces, sep) == Canon(JoinRuns(pieces, sep))

\* 'x' in line, re.search of a keyword in line
Contains(line, c) == \E i \in 1..Len(line) : line[i].c = c

\* _chunk_resume: does one of section_patterns match the line?  The patterns
\* carry (?i): "Award" is the keyword with a capital
SectionMatch(line) == Contains(line, "award") \/ Contains(line, "Award")

\* str.lower
TLower(t) == Canon([i \in 1..Len(t) |-> IF t[i].c = "Award" THEN Run("award", t[i].n) ELSE t[i]])

\* _extract_header_info: the test of lines 148-155 ('@', linkedin, github, a
\* capitalised name, a phone number; of these the alphabet has '@')
HeaderLike(line) == Contains(line, "@")

\* the section that ends in front of line number upto (0-based), if it has text
CloseSection(sections, current_section, current_content, upto) ==
    LET section_text == TStrip(Join(current_content, <<Run(NL, 1)>>)) IN
    IF current_section # <<>> /\ current_content # <<>> /\ section_text # <<>>
    THEN Append(sections, [name |-> current_section, text |-> section_text,
                           start_pos |-> upto - Len(current_content)])
    ELSE sections

\* _identify_sections, the loop from line i (1-based here) on; current_section
\* None is <<>>
RECURSIVE IdentifyFrom(_, _, _, _, _)
IdentifyFrom(text_lines, i, sections, current_section, current_content) ==
    IF i > Len(text_lines)
    THEN CloseSection(sections, current_section, current_content, Len(text_lines))
    ELSE LET line_stripped == TStrip(text_lines[i]) IN
         IF line_stripped = <<>>
         THEN IdentifyFrom(text_lines, i + 1, sections, current_section, current_content)
         ELSE IF SectionMatch(line_stripped)
         THEN IdentifyFrom(text_lines, i + 1,
                           CloseSection(sections, current_section, current_content, i - 1),
                           line_stripped, <<>>)
         ELSE IdentifyFrom(text_lines, i + 1, sections, current_section,
                           IF current_section # <<>>
                           THEN Append(current_content, line_stripped)
                           ELSE current_content)

IdentifySections(text) == IdentifyFrom(SplitLines(text), 1, <<>>, <<>>, <<>>)

\* _extract_header_info
ExtractHeaderInfo(text) ==
    LET all == SplitLines(text)
        lines == SubSeq(all, 1, Min(header_lines, Len(all)))
        stripped == [i \in 1..Len(lines) |-> TStrip(lines[i])]
        header_content == SelectSeq(stripped, LAMBDA line : line # <<>> /\ HeaderLike(line))
    IN  Join(header_content, <<Run(NL, 1)>>)

ParagraphChunk(chunk_index, current_chunk) ==
    [chunk_id |-> <<"para", chunk_index>>,
     content |-> TStrip(current_chunk),
     metadata |-> [chunk_index |-> chunk_index, char_count |-> TLen(current_chunk),
                   chunk_type |-> "paragraph"]]

\* words[-self.overlap//10:] if len(words) > self.overlap//10 else []
OverlapWords(words) ==
    IF Len(words) > overlap \div 10
    THEN SubSeq(words, Len(words) + ((0 - overlap) \div 10) + 1, Len(words))
    ELSE <<>>

\* _chunk_by_paragraphs, the loop from paragraph k on
RECURSIVE ParagraphsFrom(_, _, _, _)
ParagraphsFrom(paragraphs, k, current_chunk, chunk_index) ==
    IF k > Len(paragraphs)
    THEN IF TStrip(current_chunk) # <<>>
         THEN <<ParagraphChunk(chunk_index, current_chunk)>>
         ELSE <<>>
    ELSE LET para == paragraphs[k] IN
         IF TLen(current_chunk) + TLen(para) > chunk_size /\ current_chunk # <<>>
         THEN <<ParagraphChunk(chunk_index, current_chunk)>>
              \o ParagraphsFrom(paragraphs, k + 1,
                    Cat(Join(OverlapWords(Words(current_chunk)), <<Run(" ", 1)>>),
                        <<Run(NL, 2)>> \o para),
                    chunk_index + 1)
         ELSE ParagraphsFrom(paragraphs, k + 1,
                    IF current_chunk # <<>> THEN Cat(current_chunk, <<Run(NL, 2)>> \o para)
                    ELSE para,
                    chunk_index)

\* mutant: the whole text as one chunk, without the test of line 193
ChunkByParagraphsWhole(text) == <<ParagraphChunk(0, text)>>

\* _chunk_by_paragraphs
ChunkByParagraphs(text) ==
    LET pieces == SplitParagraphs(text)
        stripped == [i \in 1..Len(pieces) |-> TStrip(pieces[i])]
        paragraphs == SelectSeq(stripped, LAMBDA p : p # <<>>)
    IN  ParagraphsFrom(paragraphs, 1, <<>>, 0)

\* _chunk_generic_document
ChunkGenericDocument(text) == ChunkByParagraphs(text)

\* mutant: the identity block is put in front of every chunk
ChunkResumeEveryChunk(text) ==
    LET sections == IdentifySections(text)
        header_chunk == ExtractHeaderInfo(text)
    IN  [k \in 1..Len(sections) |->
            [chunk_id |-> <<"section", k - 1>>,
             content |-> Cat(header_chunk,
                             <<Run(NL, 2)>> \o sections[k].name
                                 \o <<Run(NL, 1)>> \o sections[k].text),
             metadata |-> [section_type |-> TLower(sections[k].name),
                           chunk_index |-> k - 1,
                           char_count |-> TLen(sections[k].text),
                           start_position |-> sections[k].start_pos]]]

\* _chunk_resume
ChunkResume(text) ==
    LET sections == IdentifySections(text)
        chunks ==
            IF sections # <<>>
            THEN [k \in 1..Len(sections) |->
                    [chunk_id |-> <<"section", k - 1>>,
                     content |-> TStrip(Cat(sections[k].name,
                                            <<Run(NL, 1)>> \o sections[k].text)),
                     metadata |-> [section_type |-> TLower(sections[k].name),
                                   chunk_index |-> k - 1,
                                   char_count |-> TLen(sections[k].text),
                                   start_position |-> sections[k].start_pos]]]
            ELSE ChunkByParagraphs(text)
        header_chunk == ExtractHeaderInfo(text)
    IN  IF header_chunk # <<>> /\ chunks # <<>>
        THEN [chunks EXCEPT ![1].content = Cat(header_chunk, <<Run(NL, 2)>> \o @)]
        ELSE chunks

\* the window of _fallback_chunking: min(self.chunk_size, 15000)
SafeChunkSize == Min(chunk_size, fallback_cap)

\* range(0, n, step) for a positive step, as a sequence
Range(n, step) == [k \in 1..((n + step - 1) \div step) |-> (k - 1) * step]

\* _fallback_chunking, the loop body for offset i
FallbackWindow(text, i, chunk_index) ==
    LET window == Slice(text, i, i + SafeChunkSize)
        chunk_text == IF TLen(window) > fallback_cap \/ TBytes(window) > fallback_cap
                      THEN Take(window, very_safe) ELSE window
    IN  [chunk_id |-> <<"fallback", chunk_index>>,
         content |-> chunk_text,
         metadata |-> [chunk_index |-> chunk_index, char_count |-> TLen(chunk_text),
                       chunk_type |-> "fallback"]]

\* _fallback_chunking
FallbackChunking(text) ==
    LET starts == Range(TLen(text), SafeChunkSize - overlap)
    IN  [k \in 1..Len(starts) |-> FallbackWindow(text, starts[k], k - 1)]

\* _force_chunk_large_document, the loop body for offset i
ForceWindow(text, i, chunk_index) ==
    LET window == Slice(text, i, i + safe_size)
        chunk_text == IF TBytes(window) > byte_limit
                      THEN Take(window, extra_safe) ELSE window
    IN  [chunk_id |-> <<"large_doc", chunk_index>>,
         content |-> chunk_text,
         metadata |-> [chunk_index |-> chunk_index, char_count |-> TLen(chunk_text),
                       chunk_type |-> "large_document"]]

\* _force_chunk_large_document
ForceChunkLargeDocument(text) ==
    LET starts == Range(TLen(text), safe_size - overlap)
    IN  [k \in 1..Len(starts) |-> ForceWindow(text, starts[k], k - 1)]

SubChunk(base_id, sub_chunk_index, current_chunk) ==
    [chunk_id |-> <<base_id, "part", sub_chunk_index>>,
     content |-> TStrip(current_chunk),
     metadata |-> [chunk_index |-> sub_chunk_index, char_count |-> TLen(current_chunk),
                   chunk_type |-> "split_chunk", parent_chunk |-> base_id]]

\* _split_oversized_chunk, the loop from sentence k on
RECURSIVE SentencesFrom(_, _, _, _, _)
SentencesFrom(sentences, k, current_chunk, sub_chunk_index, base_id) ==
    IF k > Len(sentences)
    THEN IF TStrip(current_chunk) # <<>>
         THEN <<SubChunk(base_id, sub_chunk_index, current_chunk)>>
         ELSE <<>>
    ELSE LET sentence == sentences[k] IN
         IF TLen(current_chunk) + TLen(sentence) > max_chunk_size /\ current_chunk # <<>>
         THEN <<SubChunk(base_id, sub_chunk_index, current_chunk)>>
              \o SentencesFrom(sentences, k + 1, sentence, sub_chunk_index + 1, base_id)
         ELSE SentencesFrom(sentences, k + 1, Cat(current_chunk, sentence),
                            sub_chunk_index, base_id)

\* _split_oversized_chunk
SplitOversizedChunk(chunk) ==
    SentencesFrom(SplitSentences(chunk.content), 1, <<>>, 0, chunk.chunk_id)

\* chunk_document, lines 34-41
RECURSIVE ValidateChunks(_)
ValidateChunks(chunks) ==
    IF chunks = <<>> THEN <<>>
    ELSE (IF TLen(Head(chunks).content) > max_chunk_size
          THEN SplitOversizedChunk(Head(chunks))
          ELSE <<Head(chunks)>>) \o ValidateChunks(Tail(chunks))

\* a document_type that is not a str (None)
NoneType == "NoneType"

\* str.lower on the modelled values
Lower(s) == IF s = "Resume" THEN "resume" ELSE s

\* document_type.lower() raises AttributeError
LowerRaises(document_type) == document_type = NoneType

\* chunk_document
ChunkDocument(text, document_type) ==
    IF TLen(text) > max_chunk_size THEN ForceChunkLargeDocument(text)
    ELSE IF LowerRaises(document_type) THEN FallbackChunking(text)
    ELSE ValidateChunks(IF Lower(document_type) = "resume"
                        THEN ChunkResume(text)
                        ELSE ChunkGenericDocument(text))

(***************************************************************************)
(* chunk_document: the calls checked                                       *)
(***************************************************************************)
MaxTextLines == 3

DocumentTypes == {"resume", "Resume", "general", NoneType}

\* k words of one letter, separated by single spaces
WordsLine(k) == [i \in 1..(2 * k - 1) |-> IF i % 2 = 1 THEN Run("a", 1) ELSE Run(" ", 1)]

\* the lines a text is made of
TextLinePool ==
    { <<>>,
      <<Run("a", 1)>>,
      <<Run("award", 1)>>,
      <<Run("a", chunk_size + 500)>>,
      <<Run("w", 7000)>>,
      <<Run("w", max_chunk_size + 1)>>,
      <<Run("a", 1), Run("@", 1), Run("a", 10000)>>,
      <<Run("a", 5000), Run(".", 1), Run(" ", 1), Run("a", 5000), Run("@", 1)>>,
      <<Run(" ", 1), Run("a", 1), Run(".", 1), Run(" ", 1)>>,
      WordsLine(overlap \div 10 + 1) }

\* the texts: up to MaxTextLines lines joined by newlines
Texts ==
    { Join(ls, <<Run(NL, 1)>>) : ls \in SeqsUpTo(TextLinePool, MaxTextLines) }

\* range(0, n, step) raises ValueError for a step of zero
RangeRaises(step) == step = 0

\* an exception inside the try block of chunk_document (lines 22-43): range()
\* in _force_chunk_large_document, document_type.lower()
BodyRaises(text, document_type, ov) ==
    IF TLen(text) > max_chunk_size THEN RangeRaises(safe_size - ov)
    ELSE LowerRaises(document_type)

\* an exception that leaves chunk_document: one raised by _fallback_chunking,
\* which the except branch calls unprotected (line 47)
ChunkDocumentRaises(text, document_type, ov) ==
    BodyRaises(text, document_type, ov) /\ RangeRaises(SafeChunkSize - ov)

CallChunkDocument ==
    /\ cpc = "call"
    /\ cchunks' = ChunkDocument(ctext, ctype)
    /\ craised' = ChunkDocumentRaises(ctext, ctype, overlap)
    /\ cpc' = "done"
    /\ UNCHANGED <<ctext, ctype, coverlap>>
    /\ UNCHANGED <<batchVars, storeVars, mainVars, phaseVars, authVars>>

ChunkNext == CallChunkDocument

\* the characters of a text that are not white space
NonSpaceLen(t) ==
    SumSeq([i \in 1..Len(t) |-> IF IsSpace(t[i].c) THEN 0 ELSE t[i].n * UnitLen(t[i].c)])

\* sum(len(chunk["content"]) for chunk in chunks)
SumLen(chunks) == SumSeq([i \in 1..Len(chunks) |-> TLen(chunks[i].content)])

\* C5 (as claimed): no chunk returned by chunk_document has content of more
\* than max_chunk_size bytes, whatever path produced it.
C5_NoChunkOverCeiling ==
    cpc = "done" =>
        \A i \in 1..Len(cchunks) : TBytes(cchunks[i].content) <= max_chunk_size

\* C6 (as claimed): the chunks cover the text: the chunk lengths add up to at
\* least the length of the text less the overlap allowance.  The allowance is
\* taken generously: one overlap per chunk, and the white space of the text
\* (which strip() may remove) is not counted as text at all.
C6_ChunksCoverText ==
    cpc = "done" =>
        SumLen(cchunks) + overlap * Len(cchunks) >= NonSpaceLen(ctext)

\* [chunk["content"] for chunk in chunks]
Contents(chunks) == [i \in 1..Len(chunks) |-> chunks[i].content]

\* the structure-aware splitting of a text under max_chunk_size found no
\* section (_chunk_resume, line 71 false)
NoSectionDetected ==
    /\ TLen(ctext) <= max_chunk_size
    /\ ~LowerRaises(ctype) /\ Lower(ctype) = "resume"
    /\ IdentifySections(ctext) = <<>>

\* C26 (as claimed): when the structure-aware splitting detects no section, or
\* a step of chunk_document raises, the chunks returned are those of the
\* fixed-size sliding window (_fallback_chunking), every one under the byte
\* ceiling, and no exception leaves chunk_document.
C26_NoSectionsSlidingWindow ==
    (cpc = "done" /\ (NoSectionDetected \/ BodyRaises(ctext, ctype, overlap))) =>
        /\ Contents(cchunks) = Contents(FallbackChunking(ctext))
        /\ \A i \in 1..Len(cchunks) : TBytes(cchunks[i].content) <= max_chunk_size
        /\ ~craised

MaxResumeLines == 4

\* the lines of a resume: a section header, a line of text, a blank line, a
\* line with an e-mail address, a long line with an e-mail address
ResumeLinePool ==
    { <<Run("Award", 1)>>,
      <<Run("a", 1)>>,
      <<>>,
      <<Run("a", 1), Run("@", 1)>>,
      <<Run("a", 5000), Run(".", 1), Run(" ", 1), Run("a", 5000), Run("@", 1)>> }

ResumeTexts ==
    { Join(ls, <<Run(NL, 1)>>) : ls \in SeqsUpTo(ResumeLinePool, MaxResumeLines) }

\* text.split('\n'), each line stripped
StrippedLines == [i \in 1..Len(SplitLines(ctext)) |-> TStrip(SplitLines(ctext)[i])]

\* the lines detected as section headers
HeaderPositions ==
    { i \in 1..Len(StrippedLines) : StrippedLines[i] # <<>> /\ SectionMatch(StrippedLines[i]) }

\* the k-th header line
HeaderAt(k) ==
    CHOOSE i \in HeaderPositions : Cardinality({ j \in HeaderPositions : j <= i }) = k

\* header line i is followed, before the next header line, by a non-empty line
HasBody(i) ==
    \E j \in (i + 1)..Len(StrippedLines) :
        /\ StrippedLines[j] # <<>>
        /\ \A h \in HeaderPositions : ~(i < h /\ h <= j)

\* text.startswith(prefix)
StartsWith(t, prefix) == Take(t, TLen(prefix)) = prefix

\* a resume under the large-document threshold with two or more section
\* headers, each followed by text
SectionedResume ==
    /\ ~LowerRaises(ctype) /\ Lower(ctype) = "resume"
    /\ TLen(ctext) <= max_chunk_size
    /\ Cardinality(HeaderPositions) >= 2
    /\ \A i \in HeaderPositions : HasBody(i)

\* one chunk per section header, in order; chunk k starts with the k-th header
\* line (after the identity block, for the first chunk) and carries the
\* lower-cased header as its section_type
OneChunkPerSection ==
    /\ Len(cchunks) = Cardinality(HeaderPositions)
    /\ \A k \in 1..Len(cchunks) :
         LET header == StrippedLines[HeaderAt(k)]
             block == ExtractHeaderInfo(ctext)
         IN  /\ "section_type" \in DOMAIN cchunks[k].metadata
             /\ cchunks[k].metadata.section_type = TLower(header)
             /\ StartsWith(cchunks[k].content,
                           IF k = 1 /\ block # <<>>
                           THEN Cat(block, <<Run(NL, 2)>> \o header)
                           ELSE header)
             /\ k > 1 => ~StartsWith(cchunks[k].content, Cat(block, <<Run(NL, 2)>>))

\* C21 (as claimed): for a resume under the large-document threshold with two
\* or more detected section headers, each followed by a non-empty line that
\* is no header, chunk_document returns one chunk per section in document
\* order, each starting with its header text and tagged with the lower-cased
\* header, the identity block being prepended to the first chunk only.
C21_OneChunkPerSection ==
    (cpc = "done" /\ SectionedResume) => OneChunkPerSection

\* the first chunk of _chunk_resume, identity block included, passes the size
\* validation of chunk_document (line 36) unsplit
FirstChunkFits ==
    \A k \in 1..Len(ChunkResume(ctext)) :
        TLen(ChunkResume(ctext)[k].content) <= max_chunk_size

\* C21: for a resume under the large-document threshold with two or more
\* detected section headers, each followed by a non-empty line that is no
\* header, and whose section chunks (the first with the identity block in
\* front) are within max_chunk_size, chunk_document returns one chunk per
\* section in document order, each starting with its header text and tagged
\* with the lower-cased header, the identity block being prepended to the
\* first chunk only.
C21_OneChunkPerSectionFits ==
    (cpc = "done" /\ SectionedResume /\ FirstChunkFits) => OneChunkPerSection

\* C21 witness: "Award", "a@", "Award", "a": two sections, the line with the
\* address is the identity block and the text of the first section
C21_Witness ==
    /\ cpc = "done" /\ SectionedResume /\ FirstChunkFits
    /\ ctext = Join(<< <<Run("Award", 1)>>, <<Run("a", 1), Run("@", 1)>>,
                       <<Run("Award", 1)>>, <<Run("a", 1)>> >>, <<Run(NL, 1)>>)
    /\ Len(cchunks) = 2
    /\ Contents(cchunks) =
         << <<Run("a", 1), Run("@", 1), Run(NL, 2), Run("Award", 1), Run(NL, 1),
              Run("a", 1), Run("@", 1)>>,
            <<Run("Award", 1), Run(NL, 1), Run("a", 1)>> >>
    /\ cchunks[1].metadata.section_type = <<Run("award", 1)>>

MaxShortLen == 3

\* the texts of at most MaxShortLen characters over a letter, a space, a
\* newline and a full stop
ShortTexts ==
    { Canon([i \in 1..Len(u) |-> Run(u[i], 1)]) : u \in SeqsUpTo({"a", " ", NL, "."}, MaxShortLen) }

\* C18: chunk_document on the empty text returns no chunk and does not raise,
\* whatever the document_type.
C18_EmptyTextNoChunks ==
    (cpc = "done" /\ ctext = <<>>) => (cchunks = <<>> /\ ~craised)

\* C18 witness: chunk_document("", "resume") has returned.
C18_Witness == cpc = "done" /\ ctext = <<>> /\ ctype = "resume" /\ cchunks = <<>>

(***************************************************************************)
(* The sliding-window slicers under a configured overlap                   *)
(* (SemanticChunker(overlap=...)): chunk_document on the calls that reach  *)
(* _force_chunk_large_document or _fallback_chunking                       *)
(***************************************************************************)
MaxWindows == 3

\* configured overlaps: negative, none, the default, the fallback window and
\* beyond, the large-document window and beyond
Overlaps == { 0 - overlap, 0, overlap, chunk_size, chunk_size + overlap,
              safe_size, safe_size + overlap }

SlicerLens ==
    {1} \cup { k * chunk_size + d : k \in 1..MaxWindows, d \in {0, 1} }
        \cup { max_chunk_size + 1 + (k - 1) * safe_size : k \in 1..MaxWindows }

SlicerTexts == { <<Run(c, n)>> : c \in {"a", "w"}, n \in SlicerLens }

\* range(0, n, step) for a step that is not zero: empty when it is negative
RangeSeq(n, step) == IF step > 0 THEN Range(n, step) ELSE <<>>

\* _force_chunk_large_document with self.overlap = ov
ForceWith(text, ov) ==
    LET starts == RangeSeq(TLen(text), safe_size - ov)
    IN  [k \in 1..Len(starts) |-> ForceWindow(text, starts[k], k - 1)]

\* _fallback_chunking with self.overlap = ov
FallbackWith(text, ov) ==
    LET starts == RangeSeq(TLen(text), SafeChunkSize - ov)
    IN  [k \in 1..Len(starts) |-> FallbackWindow(text, starts[k], k - 1)]

\* chunk_document with self.overlap = ov, for a text over max_chunk_size or a
\* document_type whose lower() raises: the chunks returned (none if it raised)
ChunkDocumentSliced(text, document_type, ov) ==
    IF ChunkDocumentRaises(text, document_type, ov) THEN <<>>
    ELSE IF BodyRaises(text, document_type, ov) THEN FallbackWith(text, ov)
    ELSE ForceWith(text, ov)

CallSlicer ==
    /\ cpc = "slice"
    /\ cchunks' = ChunkDocumentSliced(ctext, ctype, coverlap)
    /\ craised' = ChunkDocumentRaises(ctext, ctype, coverlap)
    /\ cpc' = "sliced"
    /\ UNCHANGED <<ctext, ctype, coverlap>>
    /\ UNCHANGED <<batchVars, storeVars, mainVars, phaseVars, authVars>>

SlicerNext == CallSlicer

\* the window of the slicer that produced the chunks
WindowOf(chunks) ==
    IF chunks[1].metadata.chunk_type = "fallback" THEN SafeChunkSize ELSE safe_size

\* C19 (as claimed): whatever overlap is configured, the slicers advance by a
\* positive step of at most one window: chunk_document does not raise, returns
\* chunks for a text that is not empty, and at least as many windows as the
\* text is long in windows.
C19_OverlapClamped ==
    cpc = "sliced" =>
        /\ ~craised
        /\ cchunks # <<>>
        /\ Len(cchunks) * WindowOf(cchunks) >= TLen(ctext)

(***************************************************************************)
(* src/main.py, phase 2: contexts and answers, question by question        *)
(***************************************************************************)
\* rag_vector_store.py:128, the default of max_context_length
max_context_length == 4000

\* main.py:216, unique_chunks[:10]
context_cap == 10

\* main.py:241, get_all_chunks()[:5]
all_chunks_cap == 5

\* len(str(n)) of a number below 1000
DecimalLen(n) == IF n < 10 THEN 1 ELSE IF n < 100 THEN 2 ELSE 3

\* len() of the prefix the chunker gives its chunk ids
PrefixLen(prefix) ==
    CASE prefix = "section" -> 7
      [] prefix = "para" -> 4
      [] prefix = "fallback" -> 8
      [] prefix = "large_doc" -> 9

\* len(chunk_id) of f"{prefix}_{chunk_index}"
IdLen(chunk_id) == PrefixLen(chunk_id[1]) + 1 + DecimalLen(chunk_id[2])

\* len(f"{score:.3f}") of a similarity given in hundredths
ScoreLen(score) == IF score < 0 THEN 6 ELSE 5

\* the section of line 145 for the chunk at position i (enumerate's i + 1)
Section(i, chunk) ==
    [number |-> i, score |-> chunk.similarity_score, chunk_id |-> chunk.chunk_id,
     content |-> TStrip(chunk.content)]

\* len(section): "--- Context Section {i+1} (Relevance: {score:.3f}, ID: {chunk_id})
\* ---\n{content}\n"
SectionLen(section) ==
    20 + DecimalLen(section.number) + 13 + ScoreLen(section.score) + 6
       + IdLen(section.chunk_id) + 6 + TLen(section.content) + 1

\* the text "No relevant context found." (line 134)
NoRelevantContext == [kind |-> "none", parts |-> <<>>]

RECURSIVE ContextParts(_, _, _, _, _)
\* the loop of lines 139-152 from position i on
ContextParts(chunks, max_len, i, context_parts, current_length) ==
    IF i > Len(chunks) THEN context_parts
    ELSE LET section == Section(i, chunks[i]) IN
         IF current_length + SectionLen(section) > max_len /\ context_parts # <<>>
         THEN context_parts
         ELSE ContextParts(chunks, max_len, i + 1, Append(context_parts, section),
                           current_length + SectionLen(section))

\* RAGVectorStore.build_context_from_chunks: the sections joined by "\n"
BuildContextFromChunks(chunks, max_len) ==
    IF chunks = <<>> THEN NoRelevantContext
    ELSE [kind |-> "sections", parts |-> ContextParts(chunks, max_len, 1, <<>>, 0)]

\* len(context)
ContextLen(context) ==
    IF context.kind = "none" THEN 26
    ELSE SumSeq([i \in 1..Len(context.parts) |-> SectionLen(context.parts[i])])
         + (Len(context.parts) - 1)

RECURSIVE UniqueContexts(_, _)
\* the loop of main.py:208-213: a context equal to an earlier one is left out
UniqueContexts(all_contexts, unique_chunks) ==
    IF all_contexts = <<>> THEN unique_chunks
    ELSE UniqueContexts(Tail(all_contexts),
            IF \E k \in 1..Len(unique_chunks) : unique_chunks[k] = Head(all_contexts)
            THEN unique_chunks
            ELSE Append(unique_chunks, Head(all_contexts)))

\* final_context (main.py:216), as the list of the contexts joined by "\n\n"
FinalContext(all_contexts) ==
    LET unique_chunks == UniqueContexts(all_contexts, <<>>)
    IN  SubSeq(unique_chunks, 1, Min(context_cap, Len(unique_chunks)))

\* len(final_context)
FinalContextLen(final_context) ==
    IF final_context = <<>> THEN 0
    ELSE SumSeq([k \in 1..Len(final_context) |-> ContextLen(final_context[k])])
         + 2 * (Len(final_context) - 1)

MaxPhaseQuestions == 2

\* a text of three paragraphs, the units giving the paragraphs different texts
Paragraphs3(n1, n2, n3) ==
    Join(<< <<Run("a", n1)>>, <<Run("w", n2)>>, <<Run("a", n3)>> >>, <<Run(NL, 2)>>)

\* document_content of the request that indexed last: no text, one short
\* paragraph, three paragraphs near chunk_size, a text above max_chunk_size
PhaseTexts ==
    { <<>>, <<Run("a", 100)>>,
      Paragraphs3(chunk_size - 100, chunk_size - 200, chunk_size - 100),
      <<Run("a", max_chunk_size + 1)>> }

\* what create_embeddings returned for the chunks: one vector of the store's
\* dimension per chunk (the question vectors lie nearest to the last chunk, or
\* to the first), or vectors of another dimension
PhaseEmbeddings(chunks) ==
    { [i \in 1..Len(chunks) |-> Directions[i]],
      [i \in 1..Len(chunks) |-> Directions[Len(chunks) + 1 - i]],
      [i \in 1..Len(chunks) |-> Vec(2, 1, 0)] }

\* rag_vector_store when phase 2 begins: main.py:174 was the last call on it
PhaseStores ==
    UNION { { StoreDocument(Initialize(NewStore), ChunkDocument(t, "general"), es).store :
                es \in PhaseEmbeddings(ChunkDocument(t, "general")) } : t \in PhaseTexts }

\* request.questions: QueryRequest accepts no empty list
\* (models/api_models.py:10-14)
PhaseQuestions == SeqsUpTo(QuestionIds, MaxPhaseQuestions) \ {<<>>}

NoVec == Vec(0, 0, 0)

\* what create_query_embedding does for a question (rag_service.py:72-88):
\* it returns the backend's vector, of the store's dimension or not, or raises
EmbeddingOutcomes(question) ==
    { [raised |-> FALSE, vec |-> QueryEmbedding(question)],
      [raised |-> FALSE, vec |-> Vec(2, 1, 0)],
      [raised |-> TRUE, vec |-> NoVec] }

\* what generate_answer returns (rag_service.py:119, 130, 134)
AnswerKinds == {"generated", "unable", "error_generating"}

\* the answers of generate_batch_answers(questions, final_context): one per
\* question, in order (rag_service.py:137-194)
BatchAnswerLists(questions) ==
    { [i \in 1..Len(questions) |-> [question |-> questions[i], kind |-> kinds[i]]] :
        kinds \in [1..Len(questions) -> AnswerKinds] }

\* f"Error processing question with RAG: {str(e)}" (main.py:254)
ErrorAnswer(question) == [question |-> question, kind |-> "error_rag"]

\* mutant: the exception of process_rag_question leaves no answer
NoAnswerOnError(answers, question) == answers

\* answers.append(answer) for a question whose process_rag_question caught an
\* exception (main.py:252-254, 261-262)
AppendErrorAnswer(answers, question) == Append(answers, ErrorAnswer(question))

\* no generation call was made
NoCall == [kind |-> "nocall", parts |-> <<>>]

IdlePhase ==
    [pc |-> "idle", questions |-> <<>>, i |-> 0, all_contexts |-> <<>>,
     final_context |-> <<>>, answers |-> <<>>,
     \* observations kept for the properties: per question of the pass that
     \* made the answers, the embedding outcome, the retrieval result and the
     \* context handed to generate_answer; the question whose embedding raised
     \* in the batched loop (0: none)
     embeds |-> <<>>, retrieved |-> <<>>, used |-> <<>>, raised_at |-> 0]

\* one iteration of the loop of main.py:190-202
BatchedQuestion ==
    /\ ph.pc = "batched"
    /\ LET question == ph.questions[ph.i + 1]
           last == ph.i + 1 = Len(ph.questions)
       IN  \E e \in EmbeddingOutcomes(question) :
             IF e.raised
             THEN ph' = [ph EXCEPT !.pc = "individual", !.i = 0, !.raised_at = ph.i + 1,
                                   !.embeds = <<>>, !.retrieved = <<>>]
             ELSE \E relevant_chunks \in RetrieveRelevantChunks(vstore, e.vec, 3) :
                    ph' = [ph EXCEPT
                             !.all_contexts =
                                 IF relevant_chunks # <<>>
                                 THEN Append(@, BuildContextFromChunks(relevant_chunks,
                                                                       max_context_length))
                                 ELSE @,
                             !.embeds = Append(@, e),
                             !.retrieved = Append(@, relevant_chunks),
                             !.i = @ + 1,
                             !.pc = IF last THEN "merge" ELSE "batched"]
    /\ UNCHANGED <<batchVars, storeVars, mainVars, chunkVars, authVars>>

\* main.py:205-220: the contexts merged and generate_batch_answers called
GenerateBatch ==
    /\ ph.pc = "merge"
    /\ \E answers \in BatchAnswerLists(ph.questions) :
         ph' = [ph EXCEPT !.final_context = FinalContext(ph.all_contexts),
                          !.answers = answers,
                          !.pc = "answered"]
    /\ UNCHANGED <<batchVars, storeVars, mainVars, chunkVars, authVars>>

\* one iteration of the loop of main.py:258-262 with process_rag_question
\* (226-254)
ProcessRagQuestion ==
    /\ ph.pc = "individual"
    /\ LET question == ph.questions[ph.i + 1]
           last == ph.i + 1 = Len(ph.questions)
       IN  \E e \in EmbeddingOutcomes(question) :
             IF e.raised
             THEN ph' = [ph EXCEPT
                           !.answers = AppendErrorAnswer(@, question),
                           !.embeds = Append(@, e),
                           !.retrieved = Append(@, <<>>),
                           !.used = Append(@, NoCall),
                           !.i = @ + 1,
                           !.pc = IF last THEN "answered" ELSE "individual"]
             ELSE \E found \in RetrieveRelevantChunks(vstore, e.vec, 5) :
                  \E kind \in AnswerKinds :
                    LET relevant_chunks ==
                            IF found = <<>>
                            THEN SubSeq(GetAllChunks(vstore), 1,
                                        Min(all_chunks_cap, Len(vstore.chunks)))
                            ELSE found
                        context == BuildContextFromChunks(relevant_chunks, max_context_length)
                    IN  ph' = [ph EXCEPT
                                 !.answers = Append(@, [question |-> question, kind |-> kind]),
                                 !.embeds = Append(@, e),
                                 !.retrieved = Append(@, found),
                                 !.used = Append(@, context),
                                 !.i = @ + 1,
                                 !.pc = IF last THEN "answered" ELSE "individual"]
    /\ UNCHANGED <<batchVars, storeVars, mainVars, chunkVars, authVars>>

\* db_service.store_query_result and the response (main.py:265-286)
StoreQueryResult ==
    /\ ph.pc = "answered"
    /\ \E stored \in BOOLEAN :
         ph' = [ph EXCEPT !.pc = IF stored THEN "responded" ELSE "failed"]
    /\ UNCHANGED <<batchVars, storeVars, mainVars, chunkVars, authVars>>

PhaseNext == BatchedQuestion \/ GenerateBatch \/ ProcessRagQuestion \/ StoreQueryResult

(***************************************************************************)
(* Claims on phase 2                                                       *)
(***************************************************************************)
\* the answers were assigned (main.py:220 or 257-262)
Answered == ph.pc \in {"answered", "responded", "failed"}

\* the answers are those of the batched path (no create_query_embedding raised)
AnsweredByBatch == Answered /\ ph.raised_at = 0

\* the answers are those of the loop over process_rag_question
AnsweredIndividually == Answered /\ ph.raised_at # 0

\* C11: a query embedding that raises, or a retrieval that fails, for one
\* question neither fails the request nor drops its siblings: once phase 2 is
\* over (whatever store_query_result does then) the answers are one per
\* question in question order, the text of main.py:254 stands exactly at the
\* positions whose own embedding raised, and every other position holds what
\* the generation call returned for it.
C11_FailureIsolated ==
    Answered =>
        /\ Len(ph.answers) = Len(ph.questions)
        /\ Len(ph.embeds) = Len(ph.questions)
        /\ \A i \in 1..Len(ph.questions) :
             /\ ph.answers[i].question = ph.questions[i]
             /\ (ph.answers[i].kind = "error_rag") <=> ph.embeds[i].raised
             /\ ~ph.embeds[i].raised => (ph.answers[i].kind \in AnswerKinds)

\* two questions, the embedding of the first raised in the batched loop and
\* again in its own process_rag_question, the retrieval of the second failed:
\* the second has its generated answer
C11_Witness ==
    /\ ph.pc = "responded"
    /\ Len(ph.questions) = 2
    /\ ph.raised_at = 1
    /\ ph.embeds[1].raised
    /\ ph.answers[1].kind = "error_rag"
    /\ ~ph.embeds[2].raised /\ ph.embeds[2].vec.dim # dimension
    /\ ph.answers[2].kind = "generated"

\* the context build_context_from_chunks makes of get_all_chunks()[:5]
AllChunksContext ==
    BuildContextFromChunks(SubSeq(GetAllChunks(vstore), 1,
                                  Min(all_chunks_cap, Len(vstore.chunks))),
                           max_context_length)

\* C12 (as claimed): a retrieval that returns no chunk while the store holds
\* a chunk makes the context of its question the one built from
\* get_all_chunks()[:5], in the batched path as in process_rag_question, and
\* the context handed to the generation call is not empty.
C12_EmptyRetrievalUsesAllChunks ==
    /\ AnsweredIndividually =>
         \A i \in 1..Len(ph.questions) :
            (~ph.embeds[i].raised /\ ph.retrieved[i] = <<>> /\ vstore.chunks # <<>>)
               => (ph.used[i] = AllChunksContext /\ ContextLen(ph.used[i]) > 0)
    /\ (/\ AnsweredByBatch
        /\ \E i \in 1..Len(ph.questions) : ph.retrieved[i] = <<>>
        /\ vstore.chunks # <<>>)
         => /\ \E k \in 1..Len(ph.final_context) : ph.final_context[k] = AllChunksContext
            /\ FinalContextLen(ph.final_context) > 0

\* the places (context, section) of final_context
Places(final_context) ==
    { <<k, s>> : k \in 1..Len(final_context), s \in 1..context_cap } \cap
    UNION { { <<k, s>> : s \in 1..Len(final_context[k].parts) } : k \in 1..Len(final_context) }

\* C13 (as claimed): the merged context handed to generate_batch_answers holds
\* the text of a retrieved chunk at one place at most.
C13_ChunkTextOnce ==
    AnsweredByBatch =>
        \A a, b \in Places(ph.final_context) :
            LET sa == ph.final_context[a[1]].parts[a[2]]
                sb == ph.final_context[b[1]].parts[b[2]]
            IN  (sa.chunk_id = sb.chunk_id /\ sa.content = sb.content) => a = b

\* C14 (as claimed): every context build_context_from_chunks returned has at
\* most max_context_length characters, and so has the merged context handed
\* to generate_batch_answers.
C14_ContextWithinBudget ==
    /\ \A k \in 1..Len(ph.all_contexts) :
         ContextLen(ph.all_contexts[k]) <= max_context_length
    /\ \A i \in 1..Len(ph.used) :
         ph.used[i] # NoCall => ContextLen(ph.used[i]) <= max_context_length
    /\ AnsweredByBatch => FinalContextLen(ph.final_context) <= max_context_length

(***************************************************************************)
(* Specifications                                                          *)
(***************************************************************************)
InitBatch ==
    /\ bquestions \in SeqsUpTo(QuestionIds, MaxQuestions)
    /\ bpc = "entry"
    /\ battempts = 0 /\ bidx = 0
    /\ banswers = <<>> /\ blog = <<>> /\ bparsed = <<>> /\ bparseout = <<>>
    /\ vstore = NewStore /\ rcall = NoRetrieve /\ scall = NoStore /\ nstores = 0
    /\ now = 0 /\ document_cache = [fp \in Fingerprints |-> NoEntry]
    /\ req = [r \in Requests |-> IdleRequest] /\ running = 0 /\ nrequests = 0
    /\ auth = NoAuth
    /\ ctext = <<>> /\ ctype = "general" /\ cchunks = <<>> /\ cpc = "idle"
    /\ coverlap = overlap /\ craised = FALSE
    /\ ph = IdlePhase

SpecBatch == InitBatch /\ [][BatchNext]_vars

InitStore ==
    /\ bquestions = <<>>
    /\ bpc = "returned"
    /\ battempts = 0 /\ bidx = 0
    /\ banswers = <<>> /\ blog = <<>> /\ bparsed = <<>> /\ bparseout = <<>>
    /\ vstore = NewStore /\ rcall = NoRetrieve /\ scall = NoStore /\ nstores = 0
    /\ now = 0 /\ document_cache = [fp \in Fingerprints |-> NoEntry]
    /\ req = [r \in Requests |-> IdleRequest] /\ running = 0 /\ nrequests = 0
    /\ auth = NoAuth
    /\ ctext = <<>> /\ ctype = "general" /\ cchunks = <<>> /\ cpc = "idle"
    /\ coverlap = overlap /\ craised = FALSE
    /\ ph = IdlePhase

SpecStore == InitStore /\ [][StoreNext]_vars

\* the service after startup_event (main.py:90-97), which initialises the store
Init ==
    /\ bquestions = <<>>
    /\ bpc = "returned"
    /\ battempts = 0 /\ bidx = 0
    /\ banswers = <<>> /\ blog = <<>> /\ bparsed = <<>> /\ bparseout = <<>>
    /\ vstore = Initialize(NewStore) /\ rcall = NoRetrieve /\ scall = NoStore /\ nstores = 0
    /\ now = 0 /\ document_cache = [fp \in Fingerprints |-> NoEntry]
    /\ req = [r \in Requests |-> IdleRequest] /\ running = 0 /\ nrequests = 0
    /\ auth = NoAuth
    /\ ctext = <<>> /\ ctype = "general" /\ cchunks = <<>> /\ cpc = "idle"
    /\ coverlap = overlap /\ craised = FALSE
    /\ ph = IdlePhase

InitChunk ==
    /\ bquestions = <<>>
    /\ bpc = "returned"
    /\ battempts = 0 /\ bidx = 0
    /\ banswers = <<>> /\ blog = <<>> /\ bparsed = <<>> /\ bparseout = <<>>
    /\ vstore = NewStore /\ rcall = NoRetrieve /\ scall = NoStore /\ nstores = 0
    /\ now = 0 /\ document_cache = [fp \in Fingerprints |-> NoEntry]
    /\ req = [r \in Requests |-> IdleRequest] /\ running = 0 /\ nrequests = 0
    /\ auth = NoAuth
    /\ ctext \in Texts /\ ctype \in DocumentTypes /\ cchunks = <<>> /\ cpc = "call"
    /\ coverlap = overlap /\ craised = FALSE
    /\ ph = IdlePhase

SpecChunk == InitChunk /\ [][ChunkNext]_vars

InitResume ==
    /\ bquestions = <<>>
    /\ bpc = "returned"
    /\ battempts = 0 /\ bidx = 0
    /\ banswers = <<>> /\ blog = <<>> /\ bparsed = <<>> /\ bparseout = <<>>
    /\ vstore = NewStore /\ rcall = NoRetrieve /\ scall = NoStore /\ nstores = 0
    /\ now = 0 /\ document_cache = [fp \in Fingerprints |-> NoEntry]
    /\ req = [r \in Requests |-> IdleRequest] /\ running = 0 /\ nrequests = 0
    /\ auth = NoAuth
    /\ ctext \in ResumeTexts /\ ctype \in {"resume", "Resume"} /\ cchunks = <<>> /\ cpc = "call"
    /\ coverlap = overlap /\ craised = FALSE
    /\ ph = IdlePhase

\* chunk_document on resumes
SpecResume == InitResume /\ [][ChunkNext]_vars

\* chunk_document called on a text of a few characters, the empty text included
InitShort ==
    /\ bquestions = <<>>
    /\ bpc = "returned"
    /\ battempts = 0 /\ bidx = 0
    /\ banswers = <<>> /\ blog = <<>> /\ bparsed = <<>> /\ bparseout = <<>>
    /\ vstore = NewStore /\ rcall = NoRetrieve /\ scall = NoStore /\ nstores = 0
    /\ now = 0 /\ document_cache = [fp \in Fingerprints |-> NoEntry]
    /\ req = [r \in Requests |-> IdleRequest] /\ running = 0 /\ nrequests = 0
    /\ auth = NoAuth
    /\ ctext \in ShortTexts /\ ctype \in DocumentTypes /\ cchunks = <<>> /\ cpc = "call"
    /\ coverlap = overlap /\ craised = FALSE
    /\ ph = IdlePhase

SpecShort == InitShort /\ [][ChunkNext]_vars

InitSlicer ==
    /\ bquestions = <<>>
    /\ bpc = "returned"
    /\ battempts = 0 /\ bidx = 0
    /\ banswers = <<>> /\ blog = <<>> /\ bparsed = <<>> /\ bparseout = <<>>
    /\ vstore = NewStore /\ rcall = NoRetrieve /\ scall = NoStore /\ nstores = 0
    /\ now = 0 /\ document_cache = [fp \in Fingerprints |-> NoEntry]
    /\ req = [r \in Requests |-> IdleRequest] /\ running = 0 /\ nrequests = 0
    /\ auth = NoAuth
    /\ ctext \in SlicerTexts /\ ctype \in DocumentTypes /\ coverlap \in Overlaps
    /\ (TLen(ctext) > max_chunk_size \/ LowerRaises(ctype))
    /\ cchunks = <<>> /\ cpc = "slice" /\ craised = FALSE
    /\ ph = IdlePhase

SpecSlicer == InitSlicer /\ [][SlicerNext]_vars

\* phase 2 of a request begins (main.py:185); the store holds what the last
\* store_document call left in it
InitPhase ==
    /\ bquestions = <<>>
    /\ bpc = "returned"
    /\ battempts = 0 /\ bidx = 0
    /\ banswers = <<>> /\ blog = <<>> /\ bparsed = <<>> /\ bparseout = <<>>
    /\ vstore \in PhaseStores /\ rcall = NoRetrieve /\ scall = NoStore /\ nstores = 0
    /\ now = 0 /\ document_cache = [fp \in Fingerprints |-> NoEntry]
    /\ req = [r \in Requests |-> IdleRequest] /\ running = 0 /\ nrequests = 0
    /\ auth = NoAuth
    /\ ctext = <<>> /\ ctype = "general" /\ cchunks = <<>> /\ cpc = "idle"
    /\ coverlap = overlap /\ craised = FALSE
    /\ \E questions \in PhaseQuestions :
         ph = [IdlePhase EXCEPT !.questions = questions,
                                !.pc = IF questions = <<>> THEN "merge" ELSE "batched"]

SpecPhase == InitPhase /\ [][PhaseNext]_vars

\* the service after startup_event, with requests that are refused
InitAuth ==
    /\ bquestions = <<>>
    /\ bpc = "returned"
    /\ battempts = 0 /\ bidx = 0
    /\ banswers = <<>> /\ blog = <<>> /\ bparsed = <<>> /\ bparseout = <<>>
    /\ vstore = Initialize(NewStore) /\ rcall = NoRetrieve /\ scall = NoStore /\ nstores = 0
    /\ now = 0 /\ document_cache = [fp \in Fingerprints |-> NoEntry]
    /\ req = [r \in Requests |-> IdleRequest] /\ running = 0 /\ nrequests = 0
    /\ auth = NoAuth
    /\ ctext = <<>> /\ ctype = "general" /\ cchunks = <<>> /\ cpc = "idle"
    /\ coverlap = overlap /\ craised = FALSE
    /\ ph = IdlePhase

SpecAuth == InitAuth /\ [][AuthNext]_vars

\* the endpoint after a first request, for urlA, has been indexed and answered
InitIndex ==
    /\ bquestions = <<>>
    /\ bpc = "returned"
    /\ battempts = 0 /\ bidx = 0
    /\ banswers = <<>> /\ blog = <<>> /\ bparsed = <<>> /\ bparseout = <<>>
    /\ vstore = StoreDocument(Initialize(NewStore), DocChunks("urlA"),
                              [i \in 1..DocSize("urlA") |-> DocumentEmbedding("urlA", i)]).store
    /\ rcall = NoRetrieve /\ scall = NoStore /\ nstores = 0
    /\ now = 0
    /\ document_cache =
         [fp \in Fingerprints |->
            IF fp = Fingerprint("urlA")
            THEN CacheEntry(DocumentId(DocChunks("urlA")), 0) ELSE NoEntry]
    /\ req = [r \in Requests |->
                IF r = 1 THEN [IdleRequest EXCEPT !.pc = "done", !.url = "urlA"]
                ELSE IdleRequest]
    /\ running = 0 /\ nrequests = 1
    /\ auth = NoAuth
    /\ ctext = <<>> /\ ctype = "general" /\ cchunks = <<>> /\ cpc = "idle"
    /\ coverlap = overlap /\ craised = FALSE
    /\ ph = IdlePhase

SpecIndex == InitIndex /\ [][MainNext]_vars

Next == MainNext

Spec == Init /\ [][Next]_vars

====
